---- MODULE Spec2Model ----
(***************************************************************************)
(* Model of delta-sculptor (JSON Patch: diff, apply, inverse).             *)
(*                                                                         *)
(* JavaScript strings are sequences of one-character strings, so that      *)
(* split, parseInt, startsWith, template literals and the pointer escapes  *)
(* are computed and not assumed.  JavaScript objects and arrays live in a  *)
(* heap of cells addressed by references, so that in-place mutation and    *)
(* aliasing (a patch value inserted by reference into a document) are      *)
(* what the code makes them.                                               *)
(***************************************************************************)
EXTENDS Integers, Sequences, FiniteSets, TLC

(***************************************************************************)
(* Strings                                                                 *)
(***************************************************************************)
Digits == <<"0", "1", "2", "3", "4", "5", "6", "7", "8", "9">>

IsDigit(c) == \E i \in 1..10 : Digits[i] = c

DigitVal(c) == (CHOOSE i \in 1..10 : Digits[i] = c) - 1

RECURSIVE NatToStr(_)
NatToStr(n) ==
  IF n < 10 THEN <<Digits[n + 1]>>
  ELSE NatToStr(n \div 10) \o <<Digits[(n % 10) + 1]>>

\* String(n) / `${n}` for an integer n
ToStr(n) == IF n < 0 THEN <<"-">> \o NatToStr(0 - n) ELSE NatToStr(n)

RECURSIVE LeadDigits(_)
LeadDigits(s) ==
  IF s = <<>> THEN <<>>
  ELSE IF IsDigit(Head(s)) THEN <<Head(s)>> \o LeadDigits(Tail(s))
  ELSE <<>>

RECURSIVE DigitsToNat(_, _)
DigitsToNat(ds, acc) ==
  IF ds = <<>> THEN acc
  ELSE DigitsToNat(Tail(ds), acc * 10 + DigitVal(Head(ds)))

HasSign(s) == s # <<>> /\ (Head(s) = "-" \/ Head(s) = "+")

UnsignedPart(s) == IF HasSign(s) THEN Tail(s) ELSE s

\* isNaN(parseInt(s, 10)): no digit follows the optional sign
parseIntIsNaN(s) == LeadDigits(UnsignedPart(s)) = <<>>

\* parseInt(s, 10) where it is a number: optional sign, longest digit prefix
parseInt(s) ==
  LET n == DigitsToNat(LeadDigits(UnsignedPart(s)), 0)
  IN IF s # <<>> /\ Head(s) = "-" THEN 0 - n ELSE n

\* /^\d+$/.test(s)
AllDigits(s) == s # <<>> /\ \A i \in 1..Len(s) : IsDigit(s[i])

\* s is the canonical decimal text of an array index ("0", "1", "12"; not "01")
IsIndexKey(s) == AllDigits(s) /\ ToStr(parseInt(s)) = s

StartsWith(s, p) == Len(p) <= Len(s) /\ SubSeq(s, 1, Len(p)) = p

RECURSIVE SplitFrom(_, _)
SplitFrom(s, cur) ==
  IF s = <<>> THEN <<cur>>
  ELSE IF Head(s) = "/" THEN <<cur>> \o SplitFrom(Tail(s), <<>>)
  ELSE SplitFrom(Tail(s), Append(cur, Head(s)))

\* s.split('/')
Split(s) == SplitFrom(s, <<>>)

RECURSIVE Join(_)
\* segs.join('/')
Join(segs) ==
  IF segs = <<>> THEN <<>>
  ELSE IF Len(segs) = 1 THEN segs[1]
  ELSE segs[1] \o <<"/">> \o Join(Tail(segs))

RECURSIVE ReplacePair(_, _, _, _)
\* s.replace(/c1c2/g, r)
ReplacePair(s, c1, c2, r) ==
  IF Len(s) < 2 THEN s
  ELSE IF s[1] = c1 /\ s[2] = c2
       THEN <<r>> \o ReplacePair(SubSeq(s, 3, Len(s)), c1, c2, r)
       ELSE <<s[1]>> \o ReplacePair(Tail(s), c1, c2, r)

RECURSIVE ReplaceChar(_, _, _)
\* s.replace(/c/g, r) for a replacement text r
ReplaceChar(s, c, r) ==
  IF s = <<>> THEN <<>>
  ELSE (IF Head(s) = c THEN r ELSE <<Head(s)>>) \o ReplaceChar(Tail(s), c, r)

Contains(s, c) == \E i \in 1..Len(s) : s[i] = c

\* first position (1-based) of x in the sequence q, 0 when absent
IndexOf(q, x) ==
  IF \E i \in 1..Len(q) : q[i] = x
  THEN CHOOSE i \in 1..Len(q) : q[i] = x /\ \A j \in 1..(i - 1) : q[j] # x
  ELSE 0

(***************************************************************************)
(* JavaScript values and the heap                                          *)
(***************************************************************************)
Undefined == <<"u">>
Null == <<"null">>
Num(n) == <<"n", n>>
Ref(a) == <<"r", a>>

IsRef(v) == v[1] = "r"
IsNum(v) == v[1] = "n"
Addr(v) == v[2]

ArrCell(elems) == <<"a", elems>>
ObjCell(keys, vals) == <<"o", keys, vals>>

CellIsArr(c) == c[1] = "a"
Elems(c) == c[2]
Keys(c) == c[2]
Vals(c) == c[3]

\* Array.isArray(v)
IsArray(h, v) == IsRef(v) /\ CellIsArr(h[Addr(v)])
\* v is a non-null, non-array object
IsObj(h, v) == IsRef(v) /\ ~CellIsArr(h[Addr(v)])

\* a new cell; its reference is Ref(Len(h) + 1)
Alloc(h, cell) == Append(h, cell)
NewRef(h) == Ref(Len(h) + 1)

\* an array slot that holds no element
IsHole(v) == v = Undefined

\* index in arr (the slot exists and is not a hole)
HasIndex(elems, i) == i >= 0 /\ i < Len(elems) /\ ~IsHole(elems[i + 1])

\* arr[i] = v, padding with holes when i is past the end
ArrSetIndex(elems, i, v) ==
  IF i < Len(elems) THEN [elems EXCEPT ![i + 1] = v]
  ELSE elems \o [k \in 1..(i - Len(elems)) |-> Undefined] \o <<v>>

\* arr.splice(i, 0, v): an index past the end inserts at the end
SpliceIn(elems, i, v) ==
  LET at == IF i > Len(elems) THEN Len(elems) ELSE i
  IN SubSeq(elems, 1, at) \o <<v>> \o SubSeq(elems, at + 1, Len(elems))

\* arr.splice(i, n) for 0 <= i: the array that remains
SpliceOut(elems, i, n) ==
  LET at == IF i > Len(elems) THEN Len(elems) ELSE i
      to == IF at + n > Len(elems) THEN Len(elems) ELSE at + n
  IN SubSeq(elems, 1, at) \o SubSeq(elems, to + 1, Len(elems))

KeyPos(keys, k) == IndexOf(keys, k)
HasKey(keys, k) == KeyPos(keys, k) > 0

\* where a new own property k goes: integer-like keys first, ascending, then
\* the other keys in insertion order
InsertPos(keys, k) ==
  IF IsIndexKey(k)
  THEN Cardinality({i \in 1..Len(keys) :
                      IsIndexKey(keys[i]) /\ parseInt(keys[i]) < parseInt(k)})
  ELSE Len(keys)

\* obj[k] = v
ObjSet(cell, k, v) ==
  LET p == KeyPos(Keys(cell), k) IN
  IF p > 0 THEN ObjCell(Keys(cell), [Vals(cell) EXCEPT ![p] = v])
  ELSE LET at == InsertPos(Keys(cell), k) IN
       ObjCell(SubSeq(Keys(cell), 1, at) \o <<k>>
                 \o SubSeq(Keys(cell), at + 1, Len(Keys(cell))),
               SubSeq(Vals(cell), 1, at) \o <<v>>
                 \o SubSeq(Vals(cell), at + 1, Len(Vals(cell))))

\* delete obj[k]
ObjDelete(cell, k) ==
  LET p == KeyPos(Keys(cell), k) IN
  IF p = 0 THEN cell
  ELSE ObjCell(SubSeq(Keys(cell), 1, p - 1)
                 \o SubSeq(Keys(cell), p + 1, Len(Keys(cell))),
               SubSeq(Vals(cell), 1, p - 1)
                 \o SubSeq(Vals(cell), p + 1, Len(Vals(cell))))

\* Object.keys(v) of an object or an array (the indices that are not holes)
OwnKeys(h, v) ==
  LET c == h[Addr(v)] IN
  IF CellIsArr(c)
  THEN LET idx == {i \in 1..Len(Elems(c)) : ~IsHole(Elems(c)[i])}
           RECURSIVE Asc(_)
           Asc(i) == IF i > Len(Elems(c)) THEN <<>>
                     ELSE (IF i \in idx THEN <<ToStr(i - 1)>> ELSE <<>>)
                            \o Asc(i + 1)
       IN Asc(1)
  ELSE Keys(c)

\* v[k] for a property name k (own properties only)
GetProp(h, v, k) ==
  IF ~IsRef(v) THEN Undefined
  ELSE LET c == h[Addr(v)] IN
       IF CellIsArr(c)
       THEN IF IsIndexKey(k) /\ parseInt(k) < Len(Elems(c))
            THEN Elems(c)[parseInt(k) + 1] ELSE Undefined
       ELSE IF HasKey(Keys(c), k) THEN Vals(c)[KeyPos(Keys(c), k)]
            ELSE Undefined

\* k in v, for an object or array v
HasProp(h, v, k) ==
  LET c == h[Addr(v)] IN
  IF CellIsArr(c) THEN IsIndexKey(k) /\ HasIndex(Elems(c), parseInt(k))
  ELSE HasKey(Keys(c), k)

(***************************************************************************)
(* Results of calls that may throw                                         *)
(***************************************************************************)
NoErr == "none"

\* const x = e; ... x ... x ...: the value e is computed once and named
With(e, Body(_)) == Body(e)
Ok(h, v) == [h |-> h, err |-> NoErr, val |-> v]
Throw(h, e) == [h |-> h, err |-> e, val |-> Undefined]
Failed(r) == r.err # NoErr

(***************************************************************************)
(* validate.ts                                                             *)
(***************************************************************************)
\* a field of an operation that is not a string (absent, undefined)
NotAString == <<"undefined">>

IsHex(c) ==
  IsDigit(c) \/ c \in {"a", "b", "c", "d", "e", "f", "A", "B", "C", "D", "E", "F"}

\* (code <= 0x1f && code !== 0x09) || code === 0x7f, over the characters a
\* string of the model can hold
IsControlChar(c) == c \in {"\n", "\r", "\f"}

\* the check of the first "~" of the segment alone
TildesOkFirstOnly(seg) ==
  IF ~Contains(seg, "~") THEN TRUE
  ELSE LET i == IndexOf(seg, "~") IN
       ~(i = Len(seg) \/ ~(seg[i + 1] \in {"0", "1"}))

RECURSIVE TildesOk(_)
\* the while loop over segment.indexOf('~'): every "~" is followed by 0 or 1
TildesOk(seg) ==
  IF ~Contains(seg, "~") THEN TRUE
  ELSE LET i == IndexOf(seg, "~") IN
       IF i = Len(seg) \/ ~(seg[i + 1] \in {"0", "1"}) THEN FALSE
       ELSE TildesOk(SubSeq(seg, i + 2, Len(seg)))

\* only the first "%" of the segment is looked at
PercentOk(seg) ==
  LET p == IndexOf(seg, "%") IN
  IF p = 0 THEN TRUE
  ELSE ~(p = Len(seg) \/ p = Len(seg) - 1
         \/ ~(IsHex(seg[p + 1]) /\ IsHex(seg[p + 2])))

SegmentOk(seg) ==
  /\ TildesOk(seg)
  /\ PercentOk(seg)
  /\ \A i \in 1..Len(seg) : ~IsControlChar(seg[i])

\* the error validateJsonPointer(pointer) throws, NoErr when it returns
validateJsonPointer(pointer) ==
  IF pointer = NotAString THEN "INVALID_POINTER"
  ELSE IF pointer = <<>> THEN NoErr
  ELSE IF ~StartsWith(pointer, <<"/">>) THEN "INVALID_POINTER"
  ELSE IF pointer = <<"/">> THEN NoErr
  ELSE LET segments == Tail(Split(pointer)) IN
       IF \A i \in 1..Len(segments) : SegmentOk(segments[i])
       THEN NoErr ELSE "INVALID_POINTER"

\* Object.entries(v): the own keys with their values, in key order
Entries(h, v) ==
  LET ks == OwnKeys(h, v)
  IN [i \in 1..Len(ks) |-> <<ks[i], GetProp(h, v, ks[i])>>]

\* seen.get(a) for a map kept as a set of <<address, value>> pairs
SeenHas(seen, a) == \E p \in seen : p[1] = a
SeenGet(seen, a) == (CHOOSE p \in seen : p[1] = a)[2]
SeenSet(seen, a, v) == {p \in seen : p[1] # a} \cup {<<a, v>>}

\* a clone that is the object itself
deepCloneAlias(h, seen, obj) == [h |-> h, seen |-> seen, val |-> obj]

RECURSIVE deepClone(_, _, _)
RECURSIVE CloneEntries(_, _, _, _, _)
\* deepClone(obj, seen): [h, seen, val]; the clone is registered in seen
\* before its properties are cloned
deepClone(h, seen, obj) ==
  IF ~IsRef(obj) THEN [h |-> h, seen |-> seen, val |-> obj]
  ELSE IF SeenHas(seen, Addr(obj))
  THEN [h |-> h, seen |-> seen, val |-> SeenGet(seen, Addr(obj))]
  ELSE LET result == NewRef(h)
           h1 == Alloc(h, IF IsArray(h, obj) THEN ArrCell(<<>>)
                          ELSE ObjCell(<<>>, <<>>))
           seen1 == SeenSet(seen, Addr(obj), result)
       IN CloneEntries(h1, seen1, Entries(h, obj), 1, result)

\* for (const [key, value] of Object.entries(obj)) result[key] = deepClone(value)
CloneEntries(h, seen, entries, i, result) ==
  IF i > Len(entries) THEN [h |-> h, seen |-> seen, val |-> result]
  ELSE LET c == deepClone(h, seen, entries[i][2])
           cell == c.h[Addr(result)]
           cell1 == IF CellIsArr(cell)
                    THEN ArrCell(ArrSetIndex(Elems(cell),
                                             parseInt(entries[i][1]), c.val))
                    ELSE ObjSet(cell, entries[i][1], c.val)
       IN CloneEntries([c.h EXCEPT ![Addr(result)] = cell1], c.seen,
                       entries, i + 1, result)

RECURSIVE detectCircular(_, _, _)
\* detectCircular(obj, seen) returns a path (truthy) or null; TRUE models the
\* path.  seen holds the objects that are open on the way down.
detectCircular(h, seen, obj) ==
  IF ~IsRef(obj) THEN FALSE
  ELSE IF Addr(obj) \in seen THEN TRUE
  ELSE LET es == Entries(h, obj) IN
       \E i \in 1..Len(es) :
          detectCircular(h, seen \cup {Addr(obj)}, es[i][2])

RECURSIVE validateMaxDepth(_, _, _, _)
\* TRUE when validateMaxDepth throws MAX_DEPTH_EXCEEDED
validateMaxDepth(h, obj, maxDepth, currentDepth) ==
  IF currentDepth > maxDepth THEN TRUE
  ELSE IF ~IsRef(obj) THEN FALSE
  ELSE LET es == Entries(h, obj) IN
       \E i \in 1..Len(es) :
          validateMaxDepth(h, es[i][2], maxDepth, currentDepth + 1)

RECURSIVE deepEqual(_, _, _, _)
\* validate.ts deepEqual(a, b, seen); seen maps the objects (not the arrays)
\* that are open on the way down to what they are compared with
deepEqual(h, seen, a, b) ==
  IF a = b THEN TRUE
  ELSE IF ~IsRef(a) \/ ~IsRef(b) THEN FALSE
  ELSE IF IsArray(h, a)
  THEN IF ~IsArray(h, b)
          \/ Len(Elems(h[Addr(a)])) # Len(Elems(h[Addr(b)]))
       THEN FALSE
       ELSE \* Array.prototype.every skips the holes of a
            \A i \in 1..Len(Elems(h[Addr(a)])) :
               IsHole(Elems(h[Addr(a)])[i])
               \/ deepEqual(h, seen, Elems(h[Addr(a)])[i],
                            Elems(h[Addr(b)])[i])
  ELSE IF SeenHas(seen, Addr(a)) THEN SeenGet(seen, Addr(a)) = b
  ELSE LET keysA == OwnKeys(h, a)
           keysB == OwnKeys(h, b)
       IN IF Len(keysA) # Len(keysB) THEN FALSE
          ELSE \A i \in 1..Len(keysA) :
                 /\ IndexOf(keysB, keysA[i]) > 0
                 /\ deepEqual(h, SeenSet(seen, Addr(a), b),
                              GetProp(h, a, keysA[i]), GetProp(h, b, keysA[i]))

\* a patch operation; a field that is absent is NotAString (path, from),
\* Absent (value) or 0 (count)
Absent == <<"absent">>
Op(o, p, f, v, c) == [op |-> o, path |-> p, from |-> f, value |-> v, count |-> c]

OpNames == {"add", "remove", "replace", "move", "copy", "test"}

isJsonPatchOperation(op) == op.op \in OpNames

\* !s for a string field: absent or empty
Falsy(s) == s = NotAString \/ s = <<>>

\* the error validateOperation(op) throws, NoErr when it returns
validateOperation(op) ==
  IF ~isJsonPatchOperation(op) THEN "INVALID_OPERATION"
  ELSE IF Falsy(op.path) /\ op.op # "test" THEN "MISSING_REQUIRED_FIELD"
  ELSE With(IF Falsy(op.path) THEN NoErr ELSE validateJsonPointer(op.path),
            LAMBDA e :
    IF e # NoErr THEN e
    ELSE IF op.op \in {"add", "replace", "test"}
    THEN IF op.value = Absent THEN "MISSING_REQUIRED_FIELD" ELSE NoErr
    ELSE IF op.op \in {"move", "copy"}
    THEN IF Falsy(op.from) THEN "MISSING_REQUIRED_FIELD"
         ELSE validateJsonPointer(op.from)
    ELSE NoErr)

RECURSIVE ValidateFrom(_, _, _)
\* patch.forEach of validatePatch from index i on, seenPaths so far
ValidateFrom(patch, i, seenPaths) ==
  IF i > Len(patch) THEN NoErr
  ELSE With(validateOperation(patch[i]), LAMBDA e :
    IF e # NoErr THEN e
    ELSE IF ~Falsy(patch[i].path) /\ patch[i].op \in {"remove", "replace"}
    THEN IF patch[i].path \in seenPaths THEN "INVALID_OPERATION"
         ELSE ValidateFrom(patch, i + 1, seenPaths \cup {patch[i].path})
    ELSE ValidateFrom(patch, i + 1, seenPaths))

\* the error validatePatch(patch) throws, NoErr when it returns
validatePatch(patch) == ValidateFrom(patch, 1, {})

(***************************************************************************)
(* utils.ts                                                                *)
(***************************************************************************)
escapePointerSegment(segment) ==
  ReplaceChar(ReplaceChar(segment, "~", <<"~", "0">>), "/", <<"~", "1">>)

\* the two replacements in the other order
unescapeTildeFirst(segment) ==
  ReplacePair(ReplacePair(segment, "~", "0", "~"), "~", "1", "/")

unescapePointerSegment(segment) ==
  ReplacePair(ReplacePair(segment, "~", "1", "/"), "~", "0", "~")

\* parsePointer(pointer): [err, segs]
parsePointer(pointer) ==
  IF pointer = <<>> THEN [err |-> NoErr, segs |-> <<>>]
  ELSE IF ~StartsWith(pointer, <<"/">>)
  THEN [err |-> "INVALID_POINTER", segs |-> <<>>]
  ELSE LET raw == Split(Tail(pointer))
       IN [err |-> NoErr,
           segs |-> [i \in 1..Len(raw) |-> unescapePointerSegment(raw[i])]]

RECURSIVE GetWalk(_, _, _, _)
\* the for loop of getValueByPointer from segment i on
GetWalk(h, current, segments, i) ==
  IF i > Len(segments) THEN current
  ELSE IF current = Undefined \/ current = Null THEN Undefined
  ELSE IF IsArray(h, current) /\ segments[i] = <<"-">> THEN Undefined
  ELSE GetWalk(h, GetProp(h, current, segments[i]), segments, i + 1)

\* getValueByPointer(obj, pointer): a result whose val is the value found
getValueByPointer(h, obj, pointer) ==
  IF pointer = <<>> THEN Ok(h, obj)
  ELSE With(parsePointer(pointer), LAMBDA p :
    IF p.err # NoErr THEN Throw(h, p.err)
    ELSE Ok(h, GetWalk(h, obj, p.segs, 1)))

\* the error utils.ts's own validateJsonPointer(pointer) throws
utilsValidateJsonPointer(pointer) ==
  IF pointer = NotAString THEN "INVALID_POINTER"
  ELSE IF pointer # <<>> /\ ~StartsWith(pointer, <<"/">>) THEN "INVALID_POINTER"
  ELSE LET segments == Tail(Split(pointer)) IN
       IF \A i \in 1..Len(segments) : TildesOk(segments[i])
       THEN NoErr ELSE "INVALID_POINTER"

\* isNumeric(str); str is NotAString when the index is past the segments
isNumeric(str) ==
  IF str = NotAString THEN FALSE
  ELSE str = <<"-">>
       \/ AllDigits(IF str # <<>> /\ Head(str) = "-" THEN Tail(str) ELSE str)

\* segments[k] for a 0-based k, undefined past the end
SegAt(segments, k) ==
  IF k >= 0 /\ k < Len(segments) THEN segments[k + 1] ELSE NotAString

\* the container setValueByPointer creates for a missing parent segment:
\* isNumeric(segments[parentSegments.indexOf(segment) + 1]) ? [] : {}
NewContainer(segments, parentSegments, segment) ==
  IF isNumeric(SegAt(segments, (IndexOf(parentSegments, segment) - 1) + 1))
  THEN ArrCell(<<>>) ELSE ObjCell(<<>>, <<>>)

\* the last step of setValueByPointer on the parent current
SetFinal(h, current, lastSegment, value) ==
  IF IsArray(h, current)
  THEN LET elems == Elems(h[Addr(current)])
           isEnd == lastSegment = <<"-">>
           index == IF isEnd THEN Len(elems) ELSE parseInt(lastSegment)
       IN IF ~isEnd /\ (parseIntIsNaN(lastSegment) \/ index < 0)
          THEN Throw(h, "ARRAY_INDEX_ERROR")
          ELSE Ok([h EXCEPT ![Addr(current)] =
                     ArrCell(SpliceIn(elems, index, value))], Undefined)
  ELSE IF IsRef(current)
  THEN Ok([h EXCEPT ![Addr(current)] = ObjSet(h[Addr(current)], lastSegment,
                                              value)], Undefined)
  ELSE Throw(h, "TYPE_MISMATCH")

RECURSIVE SetWalk(_, _, _, _, _)
\* the for loop of setValueByPointer over parentSegments from i on, then the
\* last step
SetWalk(h, current, segments, i, value) ==
  LET parentSegments == SubSeq(segments, 1, Len(segments) - 1)
      segment == segments[i]
  IN
  IF i > Len(parentSegments)
  THEN SetFinal(h, current, segments[Len(segments)], value)
  ELSE IF current = Undefined \/ current = Null
  THEN Throw(h, "INVALID_POINTER")
  ELSE IF IsArray(h, current)
  THEN LET elems == Elems(h[Addr(current)])
           isEnd == segment = <<"-">>
           index == IF isEnd THEN Len(elems) ELSE parseInt(segment)
       IN IF ~isEnd /\ (parseIntIsNaN(segment) \/ index < 0)
          THEN Throw(h, "ARRAY_INDEX_ERROR")
          ELSE IF HasIndex(elems, index)
          THEN SetWalk(h, GetProp(h, current, segment), segments, i + 1, value)
          ELSE LET h1 == Alloc(h, NewContainer(segments, parentSegments,
                                               segment))
                   h2 == [h1 EXCEPT ![Addr(current)] =
                            ArrCell(ArrSetIndex(elems, index, NewRef(h)))]
               IN SetWalk(h2, GetProp(h2, current, segment), segments, i + 1,
                          value)
  ELSE IF IsRef(current)
  THEN IF HasProp(h, current, segment)
       THEN SetWalk(h, GetProp(h, current, segment), segments, i + 1, value)
       ELSE LET h1 == Alloc(h, NewContainer(segments, parentSegments, segment))
                h2 == [h1 EXCEPT ![Addr(current)] =
                         ObjSet(h1[Addr(current)], segment, NewRef(h))]
            IN SetWalk(h2, GetProp(h2, current, segment), segments, i + 1,
                       value)
  ELSE Throw(h, "TYPE_MISMATCH")

\* setValueByPointer(obj, pointer, value)
setValueByPointer(h, obj, pointer, value) ==
  With(utilsValidateJsonPointer(pointer), LAMBDA e :
    IF e # NoErr THEN Throw(h, e)
    ELSE With(parsePointer(pointer), LAMBDA p :
      IF p.err # NoErr THEN Throw(h, p.err)
      ELSE IF p.segs = <<>> THEN Throw(h, "ROOT_OPERATION_ERROR")
      ELSE SetWalk(h, obj, p.segs, 1, value)))

\* the last step of removeValueByPointer on the parent current
RemoveFinal(h, current, lastSegment) ==
  IF IsArray(h, current)
  THEN LET elems == Elems(h[Addr(current)])
           isEnd == lastSegment = <<"-">>
           index == IF isEnd THEN Len(elems) - 1 ELSE parseInt(lastSegment)
       IN IF (~isEnd /\ parseIntIsNaN(lastSegment)) \/ index < 0
             \/ index >= Len(elems)
          THEN Ok(h, Undefined)
          ELSE Ok([h EXCEPT ![Addr(current)] =
                     ArrCell(SpliceOut(elems, index, 1))], elems[index + 1])
  ELSE IF ~IsRef(current) THEN Throw(h, "TypeError")
  ELSE IF ~HasProp(h, current, lastSegment) THEN Ok(h, Undefined)
  ELSE Ok([h EXCEPT ![Addr(current)] = ObjDelete(h[Addr(current)],
                                                 lastSegment)],
          GetProp(h, current, lastSegment))

RECURSIVE RemoveWalk(_, _, _, _)
\* the for loop of removeValueByPointer over parentSegments from i on, then
\* the last step
RemoveWalk(h, current, segments, i) ==
  IF i > Len(segments) - 1
  THEN RemoveFinal(h, current, segments[Len(segments)])
  ELSE IF current = Undefined \/ current = Null THEN Ok(h, Undefined)
  ELSE IF IsArray(h, current)
  THEN LET elems == Elems(h[Addr(current)])
           isEnd == segments[i] = <<"-">>
           index == IF isEnd THEN Len(elems) - 1 ELSE parseInt(segments[i])
       IN IF (~isEnd /\ parseIntIsNaN(segments[i])) \/ index < 0
             \/ index >= Len(elems)
          THEN Ok(h, Undefined)
          ELSE RemoveWalk(h, elems[index + 1], segments, i + 1)
  ELSE IF ~IsRef(current) THEN Throw(h, "TypeError")
  ELSE IF ~HasProp(h, current, segments[i]) THEN Ok(h, Undefined)
  ELSE RemoveWalk(h, GetProp(h, current, segments[i]), segments, i + 1)

\* removeValueByPointer(obj, pointer): a result whose val is the value removed
removeValueByPointer(h, obj, pointer) ==
  IF pointer = NotAString THEN Throw(h, "INVALID_POINTER")
  ELSE With(parsePointer(pointer), LAMBDA p :
    IF p.err # NoErr THEN Throw(h, p.err)
    ELSE IF p.segs = <<>> THEN Throw(h, "ROOT_OPERATION_ERROR")
    ELSE RemoveWalk(h, obj, p.segs, 1))

(***************************************************************************)
(* patch.ts                                                                *)
(***************************************************************************)
\* PatchOptions after { ...defaultOptions, ...options }
defaultOptions == [validate |-> TRUE, checkCircular |-> TRUE]

\* the value a handler receives for op.value
ValueOf(op) == IF op.value = Absent THEN Undefined ELSE op.value

handleAddOperation(h, target, path, value) ==
  setValueByPointer(h, target, path, value)

handleRemoveOperation(h, target, path) ==
  With(removeValueByPointer(h, target, path), LAMBDA r :
    IF Failed(r) THEN r ELSE Ok(r.h, Undefined))

handleReplaceOperation(h, target, path, value) ==
  With(removeValueByPointer(h, target, path), LAMBDA oldValue :
    IF Failed(oldValue) THEN oldValue
    ELSE IF oldValue.val = Undefined THEN Throw(oldValue.h, "INVALID_POINTER")
    ELSE setValueByPointer(oldValue.h, target, path, value))

\* removeValueByPointer(target, from); setValueByPointer(target, path, value)
RemoveThenSet(h, target, path, from, value) ==
  With(removeValueByPointer(h, target, from), LAMBDA r :
    IF Failed(r) THEN r ELSE setValueByPointer(r.h, target, path, value))

\* handleMoveOperation without the test that from is a prefix of path
handleMoveOperationNoPrefixCheck(h, target, path, from) ==
  IF Falsy(from) THEN Throw(h, "MISSING_REQUIRED_FIELD")
  ELSE With(validateJsonPointer(from), LAMBDA e :
    IF e # NoErr THEN Throw(h, e)
    ELSE With(getValueByPointer(h, target, from), LAMBDA valueToMove :
      IF Failed(valueToMove) THEN valueToMove
      ELSE IF valueToMove.val = Undefined THEN Throw(h, "INVALID_POINTER")
      ELSE RemoveThenSet(h, target, path, from, valueToMove.val)))

handleMoveOperation(h, target, path, from) ==
  IF Falsy(from) THEN Throw(h, "MISSING_REQUIRED_FIELD")
  ELSE With(validateJsonPointer(from), LAMBDA e :
    IF e # NoErr THEN Throw(h, e)
    ELSE IF StartsWith(path, from \o <<"/">>)
    THEN Throw(h, "INVALID_OPERATION")
    ELSE With(getValueByPointer(h, target, from), LAMBDA valueToMove :
      IF Failed(valueToMove) THEN valueToMove
      ELSE IF valueToMove.val = Undefined THEN Throw(h, "INVALID_POINTER")
      ELSE RemoveThenSet(h, target, path, from, valueToMove.val)))

\* handleCopyOperation with setValueByPointer(target, path, val): no clone
handleCopyOperationNoClone(h, target, path, from) ==
  IF Falsy(from) THEN Throw(h, "MISSING_REQUIRED_FIELD")
  ELSE With(validateJsonPointer(from), LAMBDA e :
    IF e # NoErr THEN Throw(h, e)
    ELSE With(getValueByPointer(h, target, from), LAMBDA val :
      IF Failed(val) THEN val
      ELSE IF val.val = Undefined THEN Throw(h, "INVALID_POINTER")
      ELSE setValueByPointer(h, target, path, val.val)))

handleCopyOperation(h, target, path, from) ==
  IF Falsy(from) THEN Throw(h, "MISSING_REQUIRED_FIELD")
  ELSE With(validateJsonPointer(from), LAMBDA e :
    IF e # NoErr THEN Throw(h, e)
    ELSE With(getValueByPointer(h, target, from), LAMBDA val :
      IF Failed(val) THEN val
      ELSE IF val.val = Undefined THEN Throw(h, "INVALID_POINTER")
      ELSE With(deepClone(h, {}, val.val), LAMBDA c :
             setValueByPointer(c.h, target, path, c.val))))

handleTestOperation(h, target, path, value) ==
  With(getValueByPointer(h, target, path), LAMBDA currentVal :
    IF Failed(currentVal) THEN currentVal
    ELSE IF currentVal.val = Undefined THEN Throw(h, "INVALID_POINTER")
    ELSE IF ~deepEqual(h, {}, currentVal.val, value)
    THEN Throw(h, "TEST_OPERATION_FAILED")
    ELSE Ok(h, Undefined))

\* applyOperation(target, op, opts): the heap it leaves and the error it
\* throws
applyOperation(h, target, op, opts) ==
  With(validateJsonPointer(op.path), LAMBDA e :
    IF e # NoErr THEN Throw(h, e)
    ELSE IF opts.checkCircular /\ op.value # Absent
            /\ detectCircular(h, {}, op.value)
    THEN Throw(h, "CIRCULAR_REFERENCE")
    ELSE IF op.op = "add"
    THEN handleAddOperation(h, target, op.path, ValueOf(op))
    ELSE IF op.op = "remove" THEN handleRemoveOperation(h, target, op.path)
    ELSE IF op.op = "replace"
    THEN handleReplaceOperation(h, target, op.path, ValueOf(op))
    ELSE IF op.op = "move"
    THEN handleMoveOperation(h, target, op.path, op.from)
    ELSE IF op.op = "copy"
    THEN handleCopyOperation(h, target, op.path, op.from)
    ELSE IF op.op = "test"
    THEN handleTestOperation(h, target, op.path, ValueOf(op))
    ELSE Throw(h, "INVALID_OPERATION"))

RECURSIVE ApplyFrom(_, _, _, _, _)
\* the for loop of applyPatch from operation i on
ApplyFrom(h, target, patch, i, opts) ==
  IF i > Len(patch) THEN Ok(h, Undefined)
  ELSE With(applyOperation(h, target, patch[i], opts), LAMBDA r :
         IF Failed(r) THEN r ELSE ApplyFrom(r.h, target, patch, i + 1, opts))

\* applyPatch(target, patch, opts) as one call
applyPatch(h, target, patch, opts) ==
  With(IF opts.validate THEN validatePatch(patch) ELSE NoErr, LAMBDA e :
    IF e # NoErr THEN Throw(h, e) ELSE ApplyFrom(h, target, patch, 1, opts))

(***************************************************************************)
(* Documents as trees: what a test writes as a literal and what toEqual    *)
(* compares                                                                *)
(***************************************************************************)
TNum(n) == <<"n", n>>
TArr(items) == <<"A", items>>
TObj(keys, items) == <<"O", keys, items>>

RECURSIVE Load(_, _)
RECURSIVE LoadAll(_, _, _, _)
\* builds the tree t on the heap: [h, val]
Load(h, t) ==
  IF t[1] = "A"
  THEN LET r == LoadAll(h, t[2], 1, <<>>)
       IN [h |-> Alloc(r.h, ArrCell(r.vals)), val |-> NewRef(r.h)]
  ELSE IF t[1] = "O"
  THEN LET r == LoadAll(h, t[3], 1, <<>>)
       IN [h |-> Alloc(r.h, ObjCell(t[2], r.vals)), val |-> NewRef(r.h)]
  ELSE [h |-> h, val |-> t]

LoadAll(h, items, i, vals) ==
  IF i > Len(items) THEN [h |-> h, vals |-> vals]
  ELSE LET r == Load(h, items[i])
       IN LoadAll(r.h, items, i + 1, Append(vals, r.val))

\* how deep a snapshot follows references
MaxSnapDepth == 5

RECURSIVE Snap(_, _, _)
\* the structure reachable from v, with the keys of an object unordered
Snap(h, v, d) ==
  IF ~IsRef(v) THEN v
  ELSE IF d = 0 THEN <<"deep">>
  ELSE LET c == h[Addr(v)] IN
       IF CellIsArr(c)
       THEN <<"A", [i \in 1..Len(Elems(c)) |-> Snap(h, Elems(c)[i], d - 1)]>>
       ELSE <<"O", [k \in {Keys(c)[i] : i \in 1..Len(Keys(c))} |->
                      Snap(h, GetProp(h, v, k), d - 1)]>>

\* the snapshot of a tree literal
RECURSIVE SnapTree(_)
SnapTree(t) ==
  IF t[1] = "A" THEN <<"A", [i \in 1..Len(t[2]) |-> SnapTree(t[2][i])]>>
  ELSE IF t[1] = "O"
  THEN <<"O", [k \in {t[2][i] : i \in 1..Len(t[2])} |->
                 SnapTree(t[3][IndexOf(t[2], k)])]>>
  ELSE t

\* target[k] = v for an object or an array target
SetProp(h, t, k, v) ==
  LET c == h[Addr(t)] IN
  [h EXCEPT ![Addr(t)] =
     IF CellIsArr(c) THEN ArrCell(ArrSetIndex(Elems(c), parseInt(k), v))
     ELSE ObjSet(c, k, v)]

\* Object.keys(target).forEach(k => delete target[k]): deleting the indices of
\* an array leaves its length as it was
DeleteAllKeys(h, t) ==
  LET c == h[Addr(t)] IN
  [h EXCEPT ![Addr(t)] =
     IF CellIsArr(c) THEN ArrCell([i \in 1..Len(Elems(c)) |-> Undefined])
     ELSE ObjCell(<<>>, <<>>)]

RECURSIVE AssignFrom(_, _, _, _)
AssignFrom(h, t, entries, i) ==
  IF i > Len(entries) THEN h
  ELSE AssignFrom(SetProp(h, t, entries[i][1], entries[i][2]), t, entries, i + 1)

\* Object.assign(target, source)
ObjectAssign(h, t, source) == AssignFrom(h, t, Entries(h, source), 1)

\* the catch block of applyPatchWithRollback
RollbackCatch(h, t, bk) == ObjectAssign(DeleteAllKeys(h, t), t, bk)

\* error instanceof PatchError ? error : INTERNAL_ERROR
Rethrown(e) == IF e = "TypeError" THEN "INTERNAL_ERROR" ELSE e

(***************************************************************************)
(* The inputs of the model                                                 *)
(***************************************************************************)
K(c) == <<c>>
P1(c) == <<"/", c>>
P2(c, d) == <<"/", c, "/", d>>

\* objects that patches carry as values; a patch holds them by reference
PoolHeap == <<ObjCell(<<K("x")>>, <<Num(1)>>)>>
V == Ref(1)

DocAB == TObj(<<K("a"), K("b")>>, <<TNum(1), TNum(2)>>)
DocR == TObj(<<K("r")>>, <<TArr(<<TNum(1), TNum(2), TNum(3)>>)>>)
DocArr == TArr(<<TNum(1)>>)
\* {c: {x: 1}, r: [1, 2]}
DocNest ==
  TObj(<<K("c"), K("r")>>,
       <<TObj(<<K("x")>>, <<TNum(1)>>), TArr(<<TNum(1), TNum(2)>>)>>)
Docs == {DocAB, DocR, DocArr}

OpAdd(p, v) == Op("add", p, NotAString, v, 0)
OpRemove(p) == Op("remove", p, NotAString, Absent, 0)
OpRemoveCount(p, n) == Op("remove", p, NotAString, Absent, n)
OpReplace(p, v) == Op("replace", p, NotAString, v, 0)
OpMove(f, p) == Op("move", p, f, Absent, 0)
OpCopy(f, p) == Op("copy", p, f, Absent, 0)
OpTest(p, v) == Op("test", p, NotAString, v, 0)

\* operations that validation has to reject: an unknown op, a test without
\* path, an add without value, a pointer without the leading slash
Malformed ==
  { Op("bogus", P1("a"), NotAString, Absent, 0),
    Op("test", NotAString, NotAString, Num(1), 0),
    Op("add", P1("c"), NotAString, Absent, 0),
    OpAdd(K("c"), Num(3)) }

OpsFor(d) ==
  IF d = DocAB
  THEN { OpAdd(P1("c"), Num(3)), OpAdd(P1("a"), Num(2)), OpAdd(P1("c"), V),
         OpRemove(P1("b")), OpRemove(P1("z")),
         OpReplace(P1("a"), Num(9)), OpReplace(P1("z"), Num(9)),
         OpTest(P1("a"), Num(1)), OpTest(P1("a"), Num(9)),
         OpMove(P1("a"), P1("d")), OpMove(P2("c", "x"), P1("d")),
         OpMove(P1("c"), P2("b", "x")),
         OpCopy(P1("a"), P1("e")) } \cup Malformed
  ELSE IF d = DocNest
  THEN { OpRemove(P1("z")), OpRemove(P2("c", "x")), OpRemove(P2("c", "y")),
         OpRemove(P2("r", "0")), OpRemove(P2("r", "5")),
         OpRemove(P2("r", "-")),
         OpReplace(P1("z"), Num(9)), OpReplace(P2("c", "x"), Num(9)),
         OpReplace(P2("r", "0"), Num(9)), OpReplace(P2("r", "-"), Num(9)),
         OpReplace(P2("r", "5"), Num(9)),
         OpAdd(P2("r", "0"), Num(9)), OpAdd(P2("r", "2"), Num(9)),
         OpAdd(P2("r", "5"), Num(9)), OpAdd(P1("r") \o <<"/", "-", "1">>, Num(9)),
         OpAdd(P2("c", "y"), Num(5)), OpAdd(P2("e", "y"), Num(5)),
         OpMove(P1("c"), P2("c", "y")), OpMove(P1("r"), P2("r", "0")),
         OpMove(P1("c"), P1("d")), OpMove(<<>>, P1("d")),
         OpCopy(P1("c"), P1("e")), OpCopy(P1("c"), P2("c", "y")),
         OpCopy(P1("c"), P1("c")) }
  ELSE IF d = DocR
  THEN { OpRemoveCount(P2("r", "1"), 2), OpRemoveCount(P2("r", "2"), 2),
         OpRemove(P2("r", "0")),
         OpAdd(P2("r", "-"), Num(4)), OpTest(P2("r", "0"), Num(1)),
         OpTest(P1("r"), V) }
  ELSE { OpAdd(P1("-"), Num(2)), OpAdd(P1("0"), Num(5)), OpRemove(P1("0")),
         OpTest(P1("0"), Num(9)), OpMove(P1("0"), P1("1")) }

\* the longest patch a call is given
MaxPatchLen == 2

RECURSIVE SeqsUpTo(_, _)
\* the sequences over S of length at most n
SeqsUpTo(S, n) ==
  IF n = 0 THEN {<<>>}
  ELSE LET shorter == SeqsUpTo(S, n - 1)
       IN shorter \cup {Append(q, x) : q \in shorter, x \in S}

Patches(d) == SeqsUpTo(OpsFor(d), MaxPatchLen)

(***************************************************************************)
(* inverse.ts (createInversePatch, applyPatchWithInverse)                  *)
(***************************************************************************)
RECURSIVE ReduceProps(_, _, _, _)
\* segments.slice(0, -1).reduce((obj, segment, i) => i === 0 ? obj
\* : obj[segment], target): [err, val]; a property of undefined or null is a
\* TypeError
ReduceProps(h, obj, segments, i) ==
  IF i > Len(segments) THEN [err |-> NoErr, val |-> obj]
  ELSE IF i = 1 THEN ReduceProps(h, obj, segments, 2)
  ELSE IF obj = Undefined \/ obj = Null
  THEN [err |-> "TypeError", val |-> Undefined]
  ELSE ReduceProps(h, GetProp(h, obj, segments[i]), segments, i + 1)

\* normalizeArrayPath(target, path): [err, val], val the normalized path
normalizeArrayPath(h, target, path) ==
  IF path = NotAString THEN [err |-> "TypeError", val |-> path]
  ELSE IF Split(path)[Len(Split(path))] # <<"-">>
  THEN [err |-> NoErr, val |-> path]
  ELSE With(ReduceProps(h, target,
                        SubSeq(Split(path), 1, Len(Split(path)) - 1), 1),
            LAMBDA parent :
              IF parent.err # NoErr THEN [err |-> parent.err, val |-> path]
              ELSE IF IsArray(h, parent.val)
              THEN [err |-> NoErr,
                    val |-> Join([Split(path) EXCEPT ![Len(Split(path))] =
                                    ToStr(Len(Elems(h[Addr(parent.val)])))])]
              ELSE [err |-> NoErr, val |-> path])

\* inverse.ts: batchArrayOps defaults to true
inverseDefaultOptions ==
  [batchArrayOps |-> TRUE, validate |-> TRUE, checkCircular |-> TRUE]

\* arr.slice(i, j) for integers i <= j (a negative i counts from the end)
Slice(elems, i, j) ==
  LET from == IF i < 0 THEN (IF Len(elems) + i < 0 THEN 0 ELSE Len(elems) + i)
              ELSE i
      to == IF j > Len(elems) THEN Len(elems) ELSE j
  IN IF from >= to THEN <<>> ELSE SubSeq(elems, from + 1, to)

\* a result of generateInverseOperation: the heap, the error, the inverse
\* operations (none for null, several for an array of operations)
Inv(h, e, ops) == [h |-> h, err |-> e, ops |-> ops]

\* pathSegments.length > 1 ? pathSegments.slice(0, -1).join('/') : ''
ParentPath(pathSegments) ==
  IF Len(pathSegments) > 1
  THEN Join(SubSeq(pathSegments, 1, Len(pathSegments) - 1)) ELSE <<>>

\* case 'remove' of generateInverseOperation when the parent is an array
InverseOfArrayRemove(h, parent, normalizedPath, last, count, batchArrayOps) ==
  With(IF parseIntIsNaN(last) THEN <<>>
       ELSE Slice(Elems(h[Addr(parent)]), parseInt(last),
                  parseInt(last) + count),
       LAMBDA values :
         IF batchArrayOps /\ count > 1
         THEN Inv(Alloc(h, ArrCell(values)), NoErr,
                  <<OpAdd(normalizedPath, NewRef(h))>>)
         ELSE IF count = 1
         THEN Inv(h, NoErr,
                  <<OpAdd(normalizedPath,
                          IF values = <<>> THEN Undefined ELSE values[1])>>)
         ELSE Inv(h, NoErr,
                  [k \in 1..Len(values) |->
                     OpAdd(normalizedPath, values[Len(values) + 1 - k])]))

\* the inverse of an operation that overwrites or deletes the value at
\* normalizedPath: add or replace with a clone of the value that is there
InverseWithOldValue(h, currentState, name, normalizedPath) ==
  With(getValueByPointer(h, currentState, normalizedPath), LAMBDA value :
    IF Failed(value) THEN Inv(h, value.err, <<>>)
    ELSE IF value.val = Undefined THEN Inv(h, "PATH_NOT_FOUND", <<>>)
    ELSE With(deepClone(h, {}, value.val), LAMBDA c :
           Inv(c.h, NoErr,
               <<Op(name, normalizedPath, NotAString, c.val, 0)>>)))

\* case 'remove' of generateInverseOperation
InverseOfRemove(h, currentState, operation, batchArrayOps, normalizedPath) ==
  With(IF ParentPath(Split(normalizedPath)) = <<>> THEN Ok(h, currentState)
       ELSE getValueByPointer(h, currentState,
                              ParentPath(Split(normalizedPath))),
       LAMBDA parent :
         IF Failed(parent) THEN Inv(h, parent.err, <<>>)
         ELSE IF IsArray(h, parent.val)
         THEN InverseOfArrayRemove(h, parent.val, normalizedPath,
                                   Split(normalizedPath)
                                     [Len(Split(normalizedPath))],
                                   IF operation.count = 0 THEN 1
                                   ELSE operation.count,
                                   batchArrayOps)
         ELSE InverseWithOldValue(h, currentState, "add", normalizedPath))

\* generateInverseOperation with case 'copy' falling into the inverse of an
\* add, a remove of the path copied to
generateInverseOperationCopyAsAdd(h, currentState, operation, batchArrayOps) ==
  IF operation.op = "test" THEN Inv(h, NoErr, <<>>)
  ELSE IF operation.op = "copy"
  THEN Inv(h, NoErr, <<OpRemove(operation.path)>>)
  ELSE IF operation.op \notin {"add", "remove", "replace", "move"}
  THEN Inv(h, "INVALID_OPERATION", <<>>)
  ELSE IF operation.op = "move" /\ Falsy(operation.from)
  THEN Inv(h, "MISSING_REQUIRED_FIELD", <<>>)
  ELSE With(normalizeArrayPath(h, currentState, operation.path), LAMBDA np :
    IF operation.op = "move"
    THEN With(normalizeArrayPath(h, currentState, operation.from),
              LAMBDA fromPath :
                IF fromPath.err # NoErr THEN Inv(h, fromPath.err, <<>>)
                ELSE IF np.err # NoErr THEN Inv(h, np.err, <<>>)
                ELSE Inv(h, NoErr, <<OpMove(np.val, fromPath.val)>>))
    ELSE IF np.err # NoErr THEN Inv(h, np.err, <<>>)
    ELSE IF operation.op = "add"
    THEN IF IsArray(h, operation.value)
         THEN IF batchArrayOps
              THEN Inv(h, NoErr,
                       <<OpRemoveCount(np.val,
                                       Len(Elems(h[Addr(operation.value)])))>>)
              ELSE Inv(h, NoErr,
                       [k \in 1..Len(Elems(h[Addr(operation.value)])) |->
                          OpRemove(np.val)])
         ELSE Inv(h, NoErr, <<OpRemove(np.val)>>)
    ELSE IF operation.op = "remove"
    THEN InverseOfRemove(h, currentState, operation, batchArrayOps, np.val)
    ELSE InverseWithOldValue(h, currentState, "replace", np.val))

\* generateInverseOperation(currentState, operation, batchArrayOps); np is
\* normalizeArrayPath(currentState, operation.path), which every case but
\* copy and test computes first
generateInverseOperation(h, currentState, operation, batchArrayOps) ==
  IF operation.op \in {"copy", "test"} THEN Inv(h, NoErr, <<>>)
  ELSE IF operation.op \notin {"add", "remove", "replace", "move"}
  THEN Inv(h, "INVALID_OPERATION", <<>>)
  ELSE IF operation.op = "move" /\ Falsy(operation.from)
  THEN Inv(h, "MISSING_REQUIRED_FIELD", <<>>)
  ELSE With(normalizeArrayPath(h, currentState, operation.path), LAMBDA np :
    IF operation.op = "move"
    THEN With(normalizeArrayPath(h, currentState, operation.from),
              LAMBDA fromPath :
                IF fromPath.err # NoErr THEN Inv(h, fromPath.err, <<>>)
                ELSE IF np.err # NoErr THEN Inv(h, np.err, <<>>)
                ELSE Inv(h, NoErr, <<OpMove(np.val, fromPath.val)>>))
    ELSE IF np.err # NoErr THEN Inv(h, np.err, <<>>)
    ELSE IF operation.op = "add"
    THEN IF IsArray(h, operation.value)
         THEN IF batchArrayOps
              THEN Inv(h, NoErr,
                       <<OpRemoveCount(np.val,
                                       Len(Elems(h[Addr(operation.value)])))>>)
              ELSE Inv(h, NoErr,
                       [k \in 1..Len(Elems(h[Addr(operation.value)])) |->
                          OpRemove(np.val)])
         ELSE Inv(h, NoErr, <<OpRemove(np.val)>>)
    ELSE IF operation.op = "remove"
    THEN InverseOfRemove(h, currentState, operation, batchArrayOps, np.val)
    ELSE InverseWithOldValue(h, currentState, "replace", np.val))

\* s.lastIndexOf('/'), 0-based, -1 when there is none
LastSlash(s) ==
  IF Contains(s, "/")
  THEN (CHOOSE i \in 1..Len(s) :
          s[i] = "/" /\ \A j \in (i + 1)..Len(s) : s[j] # "/") - 1
  ELSE 0 - 1

\* path.slice(0, path.lastIndexOf('/'))
ParentOfPath(path) ==
  IF LastSlash(path) >= 0 THEN SubSeq(path, 1, LastSlash(path))
  ELSE SubSeq(path, 1, Len(path) - 1)

\* path.slice(path.lastIndexOf('/') + 1)
LastOfPath(path) == SubSeq(path, LastSlash(path) + 2, Len(path))

\* patch.splice(i, 1) for a 1-based i
DropAt(q, i) == SubSeq(q, 1, i - 1) \o SubSeq(q, i + 1, Len(q))

CountOf(op) == IF op.count = 0 THEN 1 ELSE op.count

\* prev.value = merged; patch.splice(i, 1)
MergeInto(h, ops, i, merged) ==
  [h |-> Alloc(h, ArrCell(merged)),
   ops |-> DropAt([ops EXCEPT ![i - 1].value = NewRef(h)], i)]

\* what one iteration of optimizeArrayOperations does with current = ops[i]
\* and prev = ops[i - 1]: [h, ops]
OptimizeAt(h, ops, i, current, prev) ==
  IF /\ current.op = "add" /\ prev.op = "add" /\ current.path = prev.path
     /\ IsArray(h, current.value) /\ IsArray(h, prev.value)
  THEN MergeInto(h, ops, i, Elems(h[Addr(prev.value)])
                              \o Elems(h[Addr(current.value)]))
  ELSE IF current.op = "remove" /\ prev.op = "remove"
          /\ current.path = prev.path
  THEN [h |-> h,
        ops |-> DropAt([ops EXCEPT ![i - 1].count =
                          CountOf(prev) + CountOf(current)], i)]
  ELSE IF /\ current.op = "add" /\ prev.op = "add"
          /\ ParentOfPath(current.path) = ParentOfPath(prev.path)
          /\ ~parseIntIsNaN(LastOfPath(current.path))
          /\ ~parseIntIsNaN(LastOfPath(prev.path))
          /\ parseInt(LastOfPath(current.path))
               = parseInt(LastOfPath(prev.path)) + 1
  THEN MergeInto(h, ops, i,
                 IF IsArray(h, prev.value)
                 THEN Append(Elems(h[Addr(prev.value)]), ValueOf(current))
                 ELSE <<ValueOf(prev), ValueOf(current)>>)
  ELSE [h |-> h, ops |-> ops]

RECURSIVE OptimizeFrom(_, _)
\* the loop of optimizeArrayOperations(patch) of inverse.ts from i (1-based)
\* down, on r = [h, ops]
OptimizeFrom(r, i) ==
  IF i < 2 THEN r
  ELSE OptimizeFrom(OptimizeAt(r.h, r.ops, i, r.ops[i], r.ops[i - 1]), i - 1)

\* optimizeArrayOperations(patch) of inverse.ts
inverseOptimizeArrayOperations(h, ops) ==
  OptimizeFrom([h |-> h, ops |-> ops], Len(ops))

RECURSIVE InverseFrom(_, _, _, _, _, _)
\* the loop of createInversePatch from operation i on, with the inverse built
\* so far: [h, err, ops]
InverseFrom(h, workingState, patch, i, inverse, batchArrayOps) ==
  IF i > Len(patch) THEN Inv(h, NoErr, inverse)
  ELSE With(generateInverseOperation(h, workingState, patch[i],
                                     batchArrayOps),
            LAMBDA inverseOp :
    IF inverseOp.err # NoErr THEN Inv(inverseOp.h, inverseOp.err, <<>>)
    ELSE With(applyOperation(inverseOp.h, workingState, patch[i],
                             [defaultOptions EXCEPT !.validate = FALSE]),
              LAMBDA r :
      IF Failed(r) THEN Inv(r.h, r.err, <<>>)
      ELSE InverseFrom(r.h, workingState, patch, i + 1,
                       inverseOp.ops \o inverse, batchArrayOps)))

\* createInversePatch with const workingState = originalState: the patch is
\* replayed on the caller's document
createInversePatchInPlace(h, originalState, patch, options) ==
  With(deepCloneAlias(h, {}, originalState), LAMBDA workingState :
    With(InverseFrom(workingState.h, workingState.val, patch, 1, <<>>,
                     options.batchArrayOps),
         LAMBDA r :
           IF r.err # NoErr \/ ~options.batchArrayOps THEN r
           ELSE With(inverseOptimizeArrayOperations(r.h, r.ops),
                     LAMBDA o : Inv(o.h, NoErr, o.ops))))

\* createInversePatch(originalState, patch, options): [h, err, ops]
createInversePatch(h, originalState, patch, options) ==
  With(deepClone(h, {}, originalState), LAMBDA workingState :
    With(InverseFrom(workingState.h, workingState.val, patch, 1, <<>>,
                     options.batchArrayOps),
         LAMBDA r :
           IF r.err # NoErr \/ ~options.batchArrayOps THEN r
           ELSE With(inverseOptimizeArrayOperations(r.h, r.ops),
                     LAMBDA o : Inv(o.h, NoErr, o.ops))))

(***************************************************************************)
(* utils.ts deepEqual, as lcs.ts and array-utils.ts import it              *)
(***************************************************************************)
\* fastDeepEqual(a, b): "true", "false", or "null" when the full comparison
\* has to decide
fastDeepEqual(h, a, b) ==
  IF a = b THEN "true"
  ELSE IF a \in {Null, Undefined} \/ b \in {Null, Undefined} THEN "false"
  ELSE IF IsRef(a) # IsRef(b) THEN "false"
  ELSE IF ~IsRef(a) THEN "false"
  ELSE IF IsArray(h, a)
  THEN IF ~IsArray(h, b) \/ Len(Elems(h[Addr(a)])) # Len(Elems(h[Addr(b)]))
       THEN "false" ELSE "null"
  ELSE IF Len(OwnKeys(h, a)) # Len(OwnKeys(h, b)) THEN "false"
  ELSE "null"

\* the property names the full comparison visits: every index of an array
\* (holes included), the own keys of an object
VisitKeys(h, a) ==
  IF IsArray(h, a)
  THEN [i \in 1..Len(Elems(h[Addr(a)])) |-> ToStr(i - 1)]
  ELSE OwnKeys(h, a)

RECURSIVE utilsDeepEqual(_, _, _, _)
RECURSIVE EqualFrom(_, _, _, _, _, _)
\* deepEqual(a, b, seen): [seen, val]; seen is the one WeakMap of the whole
\* comparison, a -> b, and an object met again is equal only to the b it was
\* first compared with
utilsDeepEqual(h, seen, a, b) ==
  With(fastDeepEqual(h, a, b), LAMBDA fastResult :
    IF fastResult # "null" THEN [seen |-> seen, val |-> fastResult = "true"]
    ELSE IF SeenHas(seen, Addr(a))
    THEN [seen |-> seen, val |-> SeenGet(seen, Addr(a)) = b]
    ELSE EqualFrom(h, SeenSet(seen, Addr(a), b), a, b, VisitKeys(h, a), 1))

\* the loop over a's indices or keys, left at the first difference
EqualFrom(h, seen, a, b, keys, i) ==
  IF i > Len(keys) THEN [seen |-> seen, val |-> TRUE]
  ELSE IF ~IsArray(h, a) /\ ~HasProp(h, b, keys[i])
  THEN [seen |-> seen, val |-> FALSE]
  ELSE With(utilsDeepEqual(h, seen, GetProp(h, a, keys[i]),
                           GetProp(h, b, keys[i])),
            LAMBDA r : IF r.val THEN EqualFrom(h, r.seen, a, b, keys, i + 1)
                       ELSE r)

\* deepEqual(a, b) with the default seen = new WeakMap()
ElemEqual(h, a, b) == utilsDeepEqual(h, {}, a, b).val

(***************************************************************************)
(* lcs.ts                                                                  *)
(***************************************************************************)
RECURSIVE TemplateText(_, _)
RECURSIVE JoinComma(_, _, _)
\* `${v}`: the text a template literal makes of a value
TemplateText(h, v) ==
  IF v = Null THEN <<"n", "u", "l", "l">>
  ELSE IF v = Undefined
  THEN <<"u", "n", "d", "e", "f", "i", "n", "e", "d">>
  ELSE IF IsNum(v) THEN ToStr(v[2])
  ELSE IF IsArray(h, v) THEN JoinComma(h, Elems(h[Addr(v)]), 1)
  ELSE <<"[", "o", "b", "j", "e", "c", "t", " ",
         "O", "b", "j", "e", "c", "t", "]">>

\* Array.prototype.join(','): null and undefined elements give no text
JoinComma(h, elems, i) ==
  IF i > Len(elems) THEN <<>>
  ELSE (IF i > 1 THEN <<",">> ELSE <<>>)
       \o (IF elems[i] \in {Null, Undefined} THEN <<>>
           ELSE TemplateText(h, elems[i]))
       \o JoinComma(h, elems, i + 1)

RECURSIVE hashValue(_, _)
\* hashValue(value): null, undefined, array, object (id, key, key count),
\* number
hashValue(h, value) ==
  IF value = Null THEN <<"n">>
  ELSE IF value = Undefined THEN <<"u">>
  ELSE IF IsNum(value) THEN <<"d">> \o ToStr(value[2])
  ELSE IF IsArray(h, value)
  THEN <<"a">> \o ToStr(Len(Elems(h[Addr(value)]))) \o <<":">>
         \o hashValue(h, GetProp(h, value, <<"0">>))
  ELSE IF HasProp(h, value, <<"i", "d">>)
  THEN <<"i">> \o TemplateText(h, GetProp(h, value, <<"i", "d">>))
  ELSE IF HasProp(h, value, <<"k", "e", "y">>)
  THEN <<"k">> \o TemplateText(h, GetProp(h, value, <<"k", "e", "y">>))
  ELSE <<"o">> \o ToStr(Len(OwnKeys(h, value)))

Min(a, b) == IF a < b THEN a ELSE b
Max(a, b) == IF a > b THEN a ELSE b

RECURSIVE HashSamples(_, _, _, _)
\* for (let i = 0; i < arr.length; i += step) hash += hashValue(arr[i]) + ':'
HashSamples(h, arr, step, i) ==
  IF i >= Len(arr) THEN <<>>
  ELSE hashValue(h, arr[i + 1]) \o <<":">> \o HashSamples(h, arr, step, i + step)

\* hashArray(arr): at most 20 sample points, and the last element when the
\* sampling did not reach it
hashArray(h, arr) ==
  IF Len(arr) = 0 THEN <<"0">>
  ELSE With(Max(1, Len(arr) \div Min(20, Len(arr))), LAMBDA step :
         HashSamples(h, arr, step, 0)
           \o (IF Len(arr) > 1 /\ (Len(arr) - 1) % step # 0
               THEN hashValue(h, arr[Len(arr)]) ELSE <<>>))

\* `${arr1.length}:${arr2.length}:${hash1}:${hash2}`
getLCSCacheKey(h, arr1, arr2) ==
  ToStr(Len(arr1)) \o <<":">> \o ToStr(Len(arr2)) \o <<":">>
    \o hashArray(h, arr1) \o <<":">> \o hashArray(h, arr2)

\* the DP matrix of findLCS: matrix[i][j] for the prefixes of length i and j
LcsMatrix(h, arr1, arr2) ==
  LET matrix[i \in 0..Len(arr1), j \in 0..Len(arr2)] ==
        IF i = 0 \/ j = 0 THEN 0
        ELSE IF ElemEqual(h, arr1[i], arr2[j]) THEN matrix[i - 1, j - 1] + 1
        ELSE Max(matrix[i - 1, j], matrix[i, j - 1])
  IN matrix

RECURSIVE Backtrack(_, _, _, _, _, _, _)
\* while (i > 0 && j > 0): the indices into arr1, by unshift
Backtrack(h, arr1, arr2, matrix, i, j, result) ==
  IF i = 0 \/ j = 0 THEN result
  ELSE IF ElemEqual(h, arr1[i], arr2[j])
  THEN Backtrack(h, arr1, arr2, matrix, i - 1, j - 1, <<i - 1>> \o result)
  ELSE IF matrix[i - 1, j] > matrix[i, j - 1]
  THEN Backtrack(h, arr1, arr2, matrix, i - 1, j, result)
  ELSE Backtrack(h, arr1, arr2, matrix, i, j - 1, result)

\* what findLCS computes when the cache does not answer: [indices, length]
ComputeLCS(h, arr1, arr2) ==
  With(LcsMatrix(h, arr1, arr2), LAMBDA matrix :
    [indices |-> Backtrack(h, arr1, arr2, matrix, Len(arr1), Len(arr2), <<>>),
     length |-> matrix[Len(arr1), Len(arr2)]])

\* createMemoCache(maxSize = 1000): the Map in insertion order, each entry
\* [key, value, lastUsed], and the cleanup counter
maxSize == 1000
cleanupEvery == 100

EmptyCache == [entries |-> <<>>, cleanupCounter |-> 0]

CachePos(entries, key) ==
  IF \E p \in 1..Len(entries) : entries[p].key = key
  THEN CHOOSE p \in 1..Len(entries) : entries[p].key = key
  ELSE 0

\* cache.get(key): [cache, hit, value]; a hit stamps the entry
cacheGet(cache, key, t) ==
  With(CachePos(cache.entries, key), LAMBDA p :
    IF p = 0 THEN [cache |-> cache, hit |-> FALSE, value |-> Undefined]
    ELSE [cache |-> [cache EXCEPT !.entries[p].lastUsed = t],
          hit |-> TRUE, value |-> cache.entries[p].value])

RECURSIVE KeepPositions(_, _, _)
KeepPositions(entries, keep, p) ==
  IF p > Len(entries) THEN <<>>
  ELSE (IF p \in keep THEN <<entries[p]>> ELSE <<>>)
       \o KeepPositions(entries, keep, p + 1)

\* the place of entry p after entries.sort by lastUsed (a stable sort)
SortRank(entries, p) ==
  Cardinality({q \in 1..Len(entries) :
                 \/ entries[q].lastUsed < entries[p].lastUsed
                 \/ entries[q].lastUsed = entries[p].lastUsed /\ q < p})

\* the eviction of cache.set when the Map is full
Evict(cache) ==
  IF Len(cache.entries) < maxSize THEN cache
  ELSE IF cache.cleanupCounter + 1 >= cleanupEvery
  THEN [entries |->
          KeepPositions(cache.entries,
                        {p \in 1..Len(cache.entries) :
                           2 * SortRank(cache.entries, p)
                             >= Len(cache.entries)}, 1),
        cleanupCounter |-> 0]
  ELSE [entries |-> Tail(cache.entries),
        cleanupCounter |-> cache.cleanupCounter + 1]

\* cache.set(key, value): a key the Map holds keeps its place
cacheSet(cache, key, value, t) ==
  With(Evict(cache), LAMBDA c :
    With(CachePos(c.entries, key), LAMBDA p :
      IF p > 0
      THEN [c EXCEPT !.entries[p] =
                        [key |-> key, value |-> value, lastUsed |-> t]]
      ELSE [c EXCEPT !.entries =
                        Append(c.entries,
                               [key |-> key, value |-> value,
                                lastUsed |-> t])]))

\* findLCS(arr1, arr2) at time t: [cache, indices]
findLCS(h, cache, t, arr1, arr2) ==
  IF Len(arr1) = 0 \/ Len(arr2) = 0 THEN [cache |-> cache, indices |-> <<>>]
  ELSE With(cacheGet(cache, getLCSCacheKey(h, arr1, arr2), t), LAMBDA cached :
         IF cached.hit
         THEN [cache |-> cached.cache, indices |-> cached.value.indices]
         ELSE With(ComputeLCS(h, arr1, arr2), LAMBDA lcsResult :
                [cache |-> cacheSet(cached.cache,
                                    getLCSCacheKey(h, arr1, arr2),
                                    lcsResult, t),
                 indices |-> lcsResult.indices]))

\* getArraySimilarity(arr1, arr2) at time t: [cache, similarity], the ratio
\* kept as <<numerator, denominator>>
getArraySimilarity(h, cache, t, arr1, arr2) ==
  IF Len(arr1) = 0 /\ Len(arr2) = 0
  THEN [cache |-> cache, similarity |-> <<1, 1>>]
  ELSE IF Len(arr1) = 0 \/ Len(arr2) = 0
  THEN [cache |-> cache, similarity |-> <<0, 1>>]
  ELSE With(cacheGet(cache, getLCSCacheKey(h, arr1, arr2), t), LAMBDA cached :
         IF cached.hit
         THEN [cache |-> cached.cache,
               similarity |-> <<cached.value.length,
                                Max(Len(arr1), Len(arr2))>>]
         ELSE With(findLCS(h, cached.cache, t, arr1, arr2), LAMBDA lcs :
                [cache |-> cacheSet(lcs.cache,
                                    getLCSCacheKey(h, arr1, arr2),
                                    [indices |-> lcs.indices,
                                     length |-> Len(lcs.indices)], t),
                 similarity |-> <<Len(lcs.indices),
                                  Max(Len(arr1), Len(arr2))>>]))

\* clearLCSCache()
clearLCSCache == EmptyCache

(***************************************************************************)
(* array-utils.ts (generateArrayOperations, batchArrayOperations)          *)
(***************************************************************************)
\* an ArrayOperation; a field the literal does not set is undefined
ArrayOperation(t, i, v, f) ==
  [type |-> t, index |-> i, value |-> v, fromIndex |-> f]

\* positions.get(value) || [] for a Map kept as a function on its keys
PositionsOf(positions, value) ==
  IF value \in DOMAIN positions THEN positions[value] ELSE <<>>

\* positions.set(value, list)
PositionsSet(positions, value, list) ==
  [k \in DOMAIN positions \cup {value} |->
     IF k = value THEN list ELSE positions[k]]

RECURSIVE buildValuePositionsFrom(_, _, _)
buildValuePositionsFrom(arr, i, positions) ==
  IF i > Len(arr) THEN positions
  ELSE buildValuePositionsFrom(arr, i + 1,
         PositionsSet(positions, arr[i],
                      Append(PositionsOf(positions, arr[i]), i - 1)))

\* buildValuePositions(arr): value -> its indices, ascending
buildValuePositions(arr) == buildValuePositionsFrom(arr, 1, <<>>)

\* removeValuePosition(positions, value, index)
removeValuePosition(positions, value, index) ==
  With(PositionsOf(positions, value), LAMBDA valuePositions :
    With(IndexOf(valuePositions, index), LAMBDA posIndex :
      IF posIndex = 0 THEN positions
      ELSE IF Len(valuePositions) = 1
      THEN [k \in DOMAIN positions \ {value} |-> positions[k]]
      ELSE PositionsSet(positions, value,
                        SpliceOut(valuePositions, posIndex - 1, 1))))

\* positions.find(pos => pos > oldIndex); -1 stands for undefined
FindAfter(list, oldIndex) ==
  IF \E p \in 1..Len(list) : list[p] > oldIndex
  THEN list[CHOOSE p \in 1..Len(list) :
              list[p] > oldIndex /\ \A q \in 1..(p - 1) : list[q] <= oldIndex]
  ELSE -1

\* handleMove(operations, positions, value, newIndex, bestMovePos)
handleMove(st, value, newIndex, bestMovePos) ==
  [st EXCEPT
     !.operations = Append(@, ArrayOperation("move", newIndex, Undefined,
                                             bestMovePos)),
     !.positions = removeValuePosition(@, value, bestMovePos)]

\* handleReplace(operations, positions, oldValue, newValue, oldIndex, newIndex)
handleReplace(st, oldValue, newValue, oldIndex, newIndex) ==
  [st EXCEPT
     !.operations =
        @ \o <<ArrayOperation("remove", oldIndex, oldValue, Undefined),
               ArrayOperation("add", newIndex, newValue, Undefined)>>,
     !.positions = removeValuePosition(@, oldValue, oldIndex - 1)]

RECURSIVE GenerateLoop(_, _, _, _, _)
\* while (newIndex < newArr.length || oldIndex < oldArr.length)
GenerateLoop(h, oldArr, newArr, lcsIndices, st) ==
  IF ~(st.newIndex < Len(newArr) \/ st.oldIndex < Len(oldArr))
  THEN st.operations
  ELSE IF st.lcsPos < Len(lcsIndices)
          /\ st.oldIndex = lcsIndices[st.lcsPos + 1]
  THEN GenerateLoop(h, oldArr, newArr, lcsIndices,
         [st EXCEPT !.oldIndex = @ + 1, !.newIndex = @ + 1, !.lcsPos = @ + 1])
  ELSE IF st.newIndex < Len(newArr)
  THEN With(newArr[st.newIndex + 1], LAMBDA value :
         With(FindAfter(PositionsOf(st.positions, value), st.oldIndex),
              LAMBDA bestMovePos :
           IF bestMovePos >= 0
           THEN GenerateLoop(h, oldArr, newArr, lcsIndices,
                  [handleMove(st, value, st.newIndex, bestMovePos)
                     EXCEPT !.newIndex = @ + 1])
           ELSE IF st.oldIndex < Len(oldArr)
           THEN IF deepEqual(h, {}, oldArr[st.oldIndex + 1], value)
                THEN GenerateLoop(h, oldArr, newArr, lcsIndices,
                       [st EXCEPT !.oldIndex = @ + 1, !.newIndex = @ + 1])
                ELSE GenerateLoop(h, oldArr, newArr, lcsIndices,
                       [handleReplace(st, oldArr[st.oldIndex + 1], value,
                                      st.oldIndex, st.newIndex)
                          EXCEPT !.oldIndex = @ + 1, !.newIndex = @ + 1])
           ELSE GenerateLoop(h, oldArr, newArr, lcsIndices,
                  [st EXCEPT
                     !.operations =
                        Append(@, ArrayOperation("add", st.newIndex, value,
                                                 Undefined)),
                     !.newIndex = @ + 1])))
  ELSE GenerateLoop(h, oldArr, newArr, lcsIndices,
         [st EXCEPT
            !.operations =
               Append(@, ArrayOperation("remove", st.oldIndex,
                                        oldArr[st.oldIndex + 1], Undefined)),
            !.positions = removeValuePosition(@, oldArr[st.oldIndex + 1],
                                              st.oldIndex),
            !.oldIndex = @ + 1])

\* generateArrayOperations(oldArr, newArr) at time t: [cache, operations]
generateArrayOperations(h, cache, t, oldArr, newArr) ==
  With(findLCS(h, cache, t, oldArr, newArr), LAMBDA lcs :
    [cache |-> lcs.cache,
     operations |->
       GenerateLoop(h, oldArr, newArr, lcs.indices,
                    [operations |-> <<>>,
                     positions |-> buildValuePositions(oldArr),
                     oldIndex |-> 0, newIndex |-> 0, lcsPos |-> 0])])

\* isSequentialOperation(prev, curr)
isSequentialOperation(prev, curr) ==
  IF prev.type # curr.type THEN FALSE
  ELSE IF prev.type = "add" THEN curr.index = prev.index + 1
  ELSE IF prev.type = "remove" THEN curr.index = prev.index - 1
  ELSE FALSE

\* `/${index}`
IndexPath(index) == <<"/">> \o ToStr(index)

\* batch.every((op, i) => i === 0 || op.index === batch[i - 1].index + d)
EveryStep(batch, d) ==
  \A i \in 2..Len(batch) : batch[i].index = batch[i - 1].index + d

\* createBatchOperation(batch): [h, op]; batch.map(op => op.value) is a new
\* array
createBatchOperation(h, batch) ==
  With(batch[1], LAMBDA first :
    With(batch[Len(batch)], LAMBDA last :
      IF first.type = "add"
      THEN IF Len(batch) > 1 /\ EveryStep(batch, 1)
           THEN [h |-> Alloc(h, ArrCell([i \in 1..Len(batch) |->
                                           batch[i].value])),
                 op |-> Op("add", IndexPath(first.index), NotAString,
                           NewRef(h), 0)]
           ELSE [h |-> h,
                 op |-> Op("add", IndexPath(first.index), NotAString,
                           first.value, 0)]
      ELSE IF first.type = "remove"
      THEN IF Len(batch) = 1
              \/ (/\ last.index = first.index - (Len(batch) - 1)
                  /\ EveryStep(batch, -1))
           THEN [h |-> h,
                 op |-> Op("remove", IndexPath(last.index), NotAString,
                           Absent, Len(batch))]
           ELSE [h |-> h,
                 op |-> Op("remove", IndexPath(first.index), NotAString,
                           Absent, 0)]
      ELSE [h |-> h,
            op |-> Op("move", IndexPath(first.index),
                      IndexPath(first.fromIndex), Absent, 0)]))

\* patch.push(createBatchOperation(currentBatch))
PushBatch(r, currentBatch) ==
  With(createBatchOperation(r.h, currentBatch), LAMBDA b :
    [h |-> b.h, patch |-> Append(r.patch, b.op)])

RECURSIVE BatchFrom(_, _, _, _, _)
\* operations.forEach(op => ...): currentBatch is <<>> for null
BatchFrom(r, operations, maxBatchSize, i, currentBatch) ==
  IF i > Len(operations)
  THEN IF currentBatch # <<>> THEN PushBatch(r, currentBatch) ELSE r
  ELSE IF currentBatch = <<>>
  THEN BatchFrom(r, operations, maxBatchSize, i + 1, <<operations[i]>>)
  ELSE IF currentBatch[1].type # operations[i].type
  THEN BatchFrom(PushBatch(r, currentBatch), operations, maxBatchSize, i + 1,
                 <<operations[i]>>)
  ELSE IF Len(currentBatch) < maxBatchSize
          /\ isSequentialOperation(currentBatch[Len(currentBatch)],
                                   operations[i])
  THEN BatchFrom(r, operations, maxBatchSize, i + 1,
                 Append(currentBatch, operations[i]))
  ELSE BatchFrom(PushBatch(r, currentBatch), operations, maxBatchSize, i + 1,
                 <<operations[i]>>)

\* the default of the parameter maxBatchSize
defaultMaxBatchSize == 100

\* batchArrayOperations without the test currentBatch.length < maxBatchSize
batchArrayOperationsUncapped(h, operations, maxBatchSize) ==
  BatchFrom([h |-> h, patch |-> <<>>], operations, Len(operations) + 1, 1,
            <<>>)

\* batchArrayOperations(operations, maxBatchSize): [h, patch]
batchArrayOperations(h, operations, maxBatchSize) ==
  BatchFrom([h |-> h, patch |-> <<>>], operations, maxBatchSize, 1, <<>>)

\* parseInt(op.path.slice(1))
PathIndex(p) == parseInt(Tail(p))

\* one iteration of the replay the tests make of a patch on result = [...old]
ReplayOp(h, result, op) ==
  IF op.op = "move"
  THEN With(PathIndex(op.from), LAMBDA from :
         SpliceIn(SpliceOut(result, from, 1), PathIndex(op.path),
                  IF from < Len(result) THEN result[from + 1]
                  ELSE Undefined))
  ELSE IF op.op = "remove"
  THEN SpliceOut(result, PathIndex(op.path),
                 IF op.count # 0 THEN op.count ELSE 1)
  ELSE IF op.op = "add"
  THEN IF IsArray(h, op.value)
       THEN SubSeq(result, 1, Min(PathIndex(op.path), Len(result)))
              \o Elems(h[Addr(op.value)])
              \o SubSeq(result, Min(PathIndex(op.path), Len(result)) + 1,
                        Len(result))
       ELSE SpliceIn(result, PathIndex(op.path), op.value)
  ELSE result

(***************************************************************************)
(* array-utils.ts, the operations diff-utils.ts imports (toJsonPatch,      *)
(* generateArrayOperations, optimizeJsonPatch, batchArrayOperations of the *)
(* second half of the file; V2 marks the names the first half also has)    *)
(***************************************************************************)
\* toJsonPatch([op], { basePath }) for one operation
ToJsonPatchOp(op, basePath) ==
  IF op.type = "move"
  THEN Op("move", basePath \o IndexPath(op.index),
          basePath \o IndexPath(op.fromIndex), Absent, 0)
  ELSE IF op.type = "add"
  THEN Op("add", basePath \o IndexPath(op.index), NotAString, op.value, 0)
  ELSE Op("remove", basePath \o IndexPath(op.index), NotAString, Absent, 0)

\* toJsonPatch(operations, { basePath })
toJsonPatch(operations, basePath) ==
  [i \in 1..Len(operations) |-> ToJsonPatchOp(operations[i], basePath)]

\* source.indexOf(x, start): 0-based, -1 when absent
IndexOfFrom(source, x, start) ==
  IF \E p \in (start + 1)..Len(source) : source[p] = x
  THEN (CHOOSE p \in (start + 1)..Len(source) :
          source[p] = x /\ \A q \in (start + 1)..(p - 1) : source[q] # x) - 1
  ELSE -1

\* the state of the loop of generateArrayOperations: the operations pushed,
\* the source array (handleMoveOperation splices it), and the two indices
GenState(operations, source, sourceIndex, targetIndex) ==
  [operations |-> operations, source |-> source,
   sourceIndex |-> sourceIndex, targetIndex |-> targetIndex]

\* handleRemaining(operations, source, target, targetIndex)
handleRemaining(st, target) ==
  IF st.targetIndex < Len(target)
  THEN GenState(Append(st.operations,
                       ArrayOperation("add", st.targetIndex,
                                      target[st.targetIndex + 1], Undefined)),
                st.source, Len(st.source), st.targetIndex + 1)
  ELSE GenState(IF Len(st.source) - 1 >= 0
                THEN Append(st.operations,
                            ArrayOperation("remove", Len(st.source) - 1,
                                           st.source[Len(st.source)],
                                           Undefined))
                ELSE st.operations,
                st.source, Len(st.source), st.targetIndex)

\* handleMoveOperation(operations, source, target, sourceIndex, targetIndex,
\* targetInSource) of array-utils.ts
arrayHandleMoveOperation(st, target, targetInSource) ==
  GenState(Append(st.operations,
                  ArrayOperation("move", st.targetIndex,
                                 target[st.targetIndex + 1], targetInSource)),
           SpliceOut(st.source, targetInSource, 1),
           targetInSource, st.targetIndex + 1)

\* handleSimpleAddRemove(operations, source, target, sourceIndex, targetIndex)
handleSimpleAddRemove(st, target) ==
  GenState(st.operations
             \o <<ArrayOperation("remove", st.sourceIndex,
                                 st.source[st.sourceIndex + 1], Undefined),
                  ArrayOperation("add", st.targetIndex,
                                 target[st.targetIndex + 1], Undefined)>>,
           st.source, st.sourceIndex + 1, st.targetIndex + 1)

\* handleMatchedElements(sourceIndex, targetIndex)
handleMatchedElements(st) ==
  [st EXCEPT !.sourceIndex = @ + 1, !.targetIndex = @ + 1]

\* findTargetInSource(source, target, startIndex)
findTargetInSource(source, x, startIndex) ==
  IndexOfFrom(source, x, startIndex + 1)

\* handleElement(operations, source, target, sourceIndex, targetIndex)
handleElement(st, target) ==
  With(findTargetInSource(st.source, target[st.targetIndex + 1],
                          st.sourceIndex),
       LAMBDA targetInSource :
         IF targetInSource >= 0
         THEN arrayHandleMoveOperation(st, target, targetInSource)
         ELSE handleSimpleAddRemove(st, target))

RECURSIVE GenerateLoopV2(_, _)
\* while (sourceIndex < source.length || targetIndex < target.length)
GenerateLoopV2(st, target) ==
  IF ~(st.sourceIndex < Len(st.source) \/ st.targetIndex < Len(target))
  THEN st
  ELSE IF st.sourceIndex >= Len(st.source) \/ st.targetIndex >= Len(target)
  THEN GenerateLoopV2(handleRemaining(st, target), target)
  ELSE IF st.source[st.sourceIndex + 1] = target[st.targetIndex + 1]
  THEN GenerateLoopV2(handleMatchedElements(st), target)
  ELSE GenerateLoopV2(handleElement(st, target), target)

\* generateArrayOperations(source, target): [operations, source], source
\* being the array as the call leaves it
generateArrayOperationsV2(source, target) ==
  With(GenerateLoopV2(GenState(<<>>, source, 0, 0), target), LAMBDA st :
    [operations |-> st.operations, source |-> st.source])

\* getArrayPath(path): /^(.*?)\/(-|\d+)$/, matched is FALSE for null
getArrayPath(path) ==
  IF path # NotAString /\ LastSlash(path) >= 0
     /\ (LastOfPath(path) = <<"-">> \/ AllDigits(LastOfPath(path)))
  THEN [matched |-> TRUE, basePath |-> ParentOfPath(path),
        index |-> LastOfPath(path)]
  ELSE [matched |-> FALSE, basePath |-> <<>>, index |-> <<>>]

\* the callback of fromJsonPatch: <<operation>>, or <<>> for null
FromJsonPatchOp(op) ==
  With(getArrayPath(op.path), LAMBDA path :
    IF ~path.matched \/ parseIntIsNaN(path.index) THEN <<>>
    ELSE IF op.op = "move"
    THEN With(getArrayPath(op.from), LAMBDA fromPath :
           IF ~fromPath.matched \/ parseIntIsNaN(fromPath.index) THEN <<>>
           ELSE <<ArrayOperation("move", parseInt(path.index), Undefined,
                                 parseInt(fromPath.index))>>)
    ELSE IF op.op = "add"
    THEN <<ArrayOperation("add", parseInt(path.index), ValueOf(op),
                          Undefined)>>
    ELSE IF op.op = "remove"
    THEN <<ArrayOperation("remove", parseInt(path.index), Undefined,
                          Undefined)>>
    ELSE <<>>)

RECURSIVE fromJsonPatch(_)
\* fromJsonPatch(patch): map, then filter(op => op !== null)
fromJsonPatch(ops) ==
  IF ops = <<>> THEN <<>>
  ELSE FromJsonPatchOp(Head(ops)) \o fromJsonPatch(Tail(ops))

RECURSIVE optimizeArrayOperationsV2(_, _)
\* optimizeArrayOperations(operations), from position i (1-based)
optimizeArrayOperationsV2(operations, i) ==
  IF i > Len(operations) THEN <<>>
  ELSE IF /\ operations[i].type = "remove"
          /\ i + 1 <= Len(operations)
          /\ operations[i + 1].type = "add"
          /\ operations[i].value = operations[i + 1].value
  THEN <<ArrayOperation("move", operations[i + 1].index, operations[i].value,
                        operations[i].index)>>
         \o optimizeArrayOperationsV2(operations, i + 2)
  ELSE <<operations[i]>> \o optimizeArrayOperationsV2(operations, i + 1)

\* optimizeJsonPatch(patch)
optimizeJsonPatch(ops) ==
  toJsonPatch(optimizeArrayOperationsV2(fromJsonPatch(ops), 1), <<>>)

\* flushBatch(): [h, patch] after the batch was pushed
flushBatch(r, currentBatch, lastType) ==
  IF Len(currentBatch) = 0 THEN r
  ELSE IF Len(currentBatch) = 1
  THEN [r EXCEPT !.patch = Append(@, ToJsonPatchOp(currentBatch[1], <<>>))]
  ELSE IF lastType = "remove"
  THEN [r EXCEPT !.patch =
          Append(@, Op("remove", IndexPath(currentBatch[1].index), NotAString,
                       Absent, Len(currentBatch)))]
  ELSE IF lastType = "add"
  THEN [h |-> Alloc(r.h, ArrCell([i \in 1..Len(currentBatch) |->
                                    currentBatch[i].value])),
        patch |-> Append(r.patch,
                         Op("add", IndexPath(currentBatch[1].index),
                            NotAString, NewRef(r.h), 0))]
  ELSE r

RECURSIVE BatchFromV2(_, _, _, _, _)
\* for (const op of operations): b is [currentBatch, lastType, lastIndex];
\* lastIndex is assigned only where a batch begins
BatchFromV2(r, operations, maxBatchSize, i, b) ==
  IF i > Len(operations) THEN flushBatch(r, b.currentBatch, b.lastType)
  ELSE IF /\ operations[i].type = b.lastType
          /\ Len(b.currentBatch) < maxBatchSize
          /\ \/ operations[i].type = "remove"
                /\ operations[i].index = b.lastIndex - 1
             \/ operations[i].type = "add"
                /\ operations[i].index = b.lastIndex + 1
  THEN BatchFromV2(r, operations, maxBatchSize, i + 1,
                   [b EXCEPT !.currentBatch = Append(@, operations[i])])
  ELSE BatchFromV2(flushBatch(r, b.currentBatch, b.lastType), operations,
                   maxBatchSize, i + 1,
                   [currentBatch |-> <<operations[i]>>,
                    lastType |-> operations[i].type,
                    lastIndex |-> operations[i].index])

\* batchArrayOperations(operations, maxBatchSize): [h, patch]
batchArrayOperationsV2(h, operations, maxBatchSize) ==
  BatchFromV2([h |-> h, patch |-> <<>>], operations, maxBatchSize, 1,
              [currentBatch |-> <<>>, lastType |-> "null", lastIndex |-> 0])

(***************************************************************************)
(* diff-utils.ts                                                           *)
(***************************************************************************)
\* the elements of the array v
ArrayOf(h, v) == Elems(h[Addr(v)])

RECURSIVE SimpleCommon(_, _, _, _, _)
\* for (let i = 0; i < minLen; i++) if (!deepEqual(oldArr[i], newArr[i]))
\* push a replace (both branches of the inner if push the same operation)
SimpleCommon(h, oldArr, newArr, basePath, i) ==
  IF i >= Min(Len(oldArr), Len(newArr)) THEN <<>>
  ELSE (IF ~deepEqual(h, {}, oldArr[i + 1], newArr[i + 1])
        THEN <<Op("replace", basePath \o IndexPath(i), NotAString,
                  newArr[i + 1], 0)>>
        ELSE <<>>)
       \o SimpleCommon(h, oldArr, newArr, basePath, i + 1)

\* diffArraySimple(oldArr, newArr, { basePath }): replaces, then the adds in
\* ascending order, then the removes from the end
diffArraySimple(h, oldArr, newArr, basePath) ==
  SimpleCommon(h, oldArr, newArr, basePath, 0)
    \o [k \in 1..(Len(newArr) - Min(Len(oldArr), Len(newArr))) |->
          Op("add", basePath \o IndexPath(Min(Len(oldArr), Len(newArr)) + k - 1),
             NotAString, newArr[Min(Len(oldArr), Len(newArr)) + k], 0)]
    \o [k \in 1..(Len(oldArr) - Min(Len(oldArr), Len(newArr))) |->
          Op("remove", basePath \o IndexPath(Len(oldArr) - k), NotAString,
             Absent, 0)]

\* oldArr.length === newArr.length && oldArr.length <= 3 &&
\* oldArr.filter((v, i) => !deepEqual(v, newArr[i])).length === 1
isSimpleChange(h, oldArr, newArr) ==
  /\ Len(oldArr) = Len(newArr)
  /\ Len(oldArr) <= 3
  /\ Cardinality({i \in 1..Len(oldArr) :
                    ~IsHole(oldArr[i])
                    /\ ~deepEqual(h, {}, oldArr[i], newArr[i])}) = 1

\* patch.map(op => ({ ...op, path: basePath + op.path,
\*                    ...(op.from ? { from: basePath + op.from } : {}) }))
AddBasePath(ops, basePath) ==
  [i \in 1..Len(ops) |->
     [ops[i] EXCEPT !.path = basePath \o @,
                    !.from = IF Falsy(@) THEN @ ELSE basePath \o @]]

\* diffArrayWithLCS(oldArr, newArr, params) for two arrays of the heap; the
\* defaults of params are applied by the caller.  generateArrayOperations
\* leaves oldArr spliced.
diffArrayWithLCS(h, oldArr, newArr, params) ==
  IF params.checkCircular /\ detectCircular(h, {}, newArr)
  THEN Throw(h, "CIRCULAR_REFERENCE")
  ELSE IF isSimpleChange(h, ArrayOf(h, oldArr), ArrayOf(h, newArr))
  THEN Ok(h, diffArraySimple(h, ArrayOf(h, oldArr), ArrayOf(h, newArr),
                             params.basePath))
  ELSE With(generateArrayOperationsV2(ArrayOf(h, oldArr), ArrayOf(h, newArr)),
            LAMBDA gen :
         With([h EXCEPT ![Addr(oldArr)] = ArrCell(gen.source)], LAMBDA h1 :
           IF params.batchArrayOps
           THEN With(batchArrayOperationsV2(h1, gen.operations,
                                            params.maxBatchSize),
                     LAMBDA b : Ok(b.h, AddBasePath(b.patch, params.basePath)))
           ELSE Ok(h1, AddBasePath(
                         optimizeJsonPatch(toJsonPatch(gen.operations, <<>>)),
                         params.basePath))))

(***************************************************************************)
(* diff.ts (createPatch).  An options record holds detectMove,             *)
(* batchArrayOps and checkCircular as booleans (undefined is false, false  *)
(* and true), maxBatchSize with its default, and maxDepth, -1 standing for *)
(* undefined.  handleArrays hands basePath and the options to diff-utils   *)
(* in the params object that diff-utils.ts declares.                       *)
(***************************************************************************)
\* obj !== null && typeof obj === 'object'
isObject(obj) == IsRef(obj)

\* Object.keys(obj).length === 0
isEmptyObject(h, obj) == Len(OwnKeys(h, obj)) = 0

isNestedStructure(h, value) ==
  IsArray(h, value) \/ (isObject(value) /\ ~isEmptyObject(h, value))

\* arr.some(isNestedStructure)
SomeNested(h, arr) ==
  \E i \in 1..Len(arr) : ~IsHole(arr[i]) /\ isNestedStructure(h, arr[i])

\* basePath || '/'
PathOrRoot(basePath) == IF Falsy(basePath) THEN <<"/">> ELSE basePath

\* handlePrimitiveValues(oldObj, newObj, basePath)
handlePrimitiveValues(h, oldObj, newObj, basePath) ==
  IF deepEqual(h, {}, oldObj, newObj) THEN <<>>
  ELSE IF oldObj = Undefined
  THEN <<Op("add", PathOrRoot(basePath), NotAString, newObj, 0)>>
  ELSE IF newObj = Undefined
  THEN <<Op("remove", PathOrRoot(basePath), NotAString, Absent, 0)>>
  ELSE <<Op("replace", PathOrRoot(basePath), NotAString, newObj, 0)>>

\* concatPath(basePath, key)
concatPath(basePath, key) ==
  IF Falsy(basePath) THEN <<"/">> \o escapePointerSegment(key)
  ELSE basePath \o <<"/">> \o escapePointerSegment(key)

\* handleArrays(oldArr, newArr, basePath, options)
handleArrays(h, oldArr, newArr, basePath, options) ==
  IF options.detectMove
  THEN diffArrayWithLCS(h, oldArr, newArr,
                        [basePath |-> basePath,
                         checkCircular |-> options.checkCircular,
                         batchArrayOps |-> options.batchArrayOps,
                         maxBatchSize |-> options.maxBatchSize])
  ELSE Ok(h, diffArraySimple(h, ArrayOf(h, oldArr), ArrayOf(h, newArr),
                             basePath))

\* the removes of handleNestedArrays and handleObjects: in the order pushed
NestedRemoves(oldLen, newLen, basePath) ==
  [k \in 1..(oldLen - Min(oldLen, newLen)) |->
     Op("remove", basePath \o IndexPath(oldLen - k), NotAString, Absent, 0)]

RemovedKeys(oldKeys, newKeys, basePath) ==
  SelectSeq([i \in 1..Len(oldKeys) |->
               IF HasKey(newKeys, oldKeys[i]) THEN Op("none", <<>>, <<>>,
                                                      Absent, 0)
               ELSE Op("remove", concatPath(basePath, oldKeys[i]), NotAString,
                       Absent, 0)],
            LAMBDA o : o.op # "none")

\* patch.push(...more) on a result that carries the patch so far
PushAll(r, more) ==
  IF Failed(more) THEN more ELSE Ok(more.h, r.val \o more.val)

RECURSIVE createPatch(_, _, _, _, _, _)
RECURSIVE NestedFrom(_, _, _, _, _, _, _)
RECURSIVE ObjectsFrom(_, _, _, _, _, _, _, _)
\* createPatch(oldObj, newObj, basePath, options, currentDepth): the patch,
\* or the error thrown; the heap changes where an array stands in for a
\* non-array, where batching makes an array, where oldObj is spliced
createPatch(h, oldObj, newObj, basePath, options, currentDepth) ==
  IF ~isObject(oldObj) \/ ~isObject(newObj)
  THEN Ok(h, handlePrimitiveValues(h, oldObj, newObj, basePath))
  ELSE IF options.maxDepth >= 0
          /\ validateMaxDepth(h, newObj, options.maxDepth, currentDepth)
  THEN Throw(h, "MAX_DEPTH_EXCEEDED")
  ELSE IF options.checkCircular /\ detectCircular(h, {}, newObj)
  THEN Throw(h, "CIRCULAR_REFERENCE")
  ELSE IF IsArray(h, oldObj) \/ IsArray(h, newObj)
  THEN \* const oldArray = Array.isArray(oldObj) ? oldObj : []
       With(IF IsArray(h, oldObj) THEN [h |-> h, val |-> oldObj]
            ELSE [h |-> Alloc(h, ArrCell(<<>>)), val |-> NewRef(h)],
            LAMBDA o :
         With(IF IsArray(o.h, newObj) THEN [h |-> o.h, val |-> newObj]
              ELSE [h |-> Alloc(o.h, ArrCell(<<>>)), val |-> NewRef(o.h)],
              LAMBDA n :
           IF SomeNested(n.h, ArrayOf(n.h, o.val))
              \/ SomeNested(n.h, ArrayOf(n.h, n.val))
           THEN NestedFrom(Ok(n.h, <<>>), ArrayOf(n.h, o.val),
                           ArrayOf(n.h, n.val), basePath, options,
                           currentDepth, 0)
           ELSE handleArrays(n.h, o.val, n.val, basePath, options)))
  ELSE With(Ok(h, RemovedKeys(OwnKeys(h, oldObj), OwnKeys(h, newObj),
                              basePath)),
            LAMBDA r : ObjectsFrom(r, oldObj, newObj, OwnKeys(h, oldObj),
                                   OwnKeys(h, newObj), basePath,
                                   [options |-> options,
                                    currentDepth |-> currentDepth], 1))

\* handleNestedArrays(oldArr, newArr, basePath, options, currentDepth) from
\* index i: the common part recursively, then the adds and the removes
NestedFrom(r, oldArr, newArr, basePath, options, currentDepth, i) ==
  IF Failed(r) THEN r
  ELSE IF i >= Min(Len(oldArr), Len(newArr))
  THEN Ok(r.h,
          r.val
            \o [k \in 1..(Len(newArr) - Min(Len(oldArr), Len(newArr))) |->
                  Op("add",
                     basePath \o IndexPath(Min(Len(oldArr), Len(newArr))
                                             + k - 1),
                     NotAString,
                     newArr[Min(Len(oldArr), Len(newArr)) + k], 0)]
            \o NestedRemoves(Len(oldArr), Len(newArr), basePath))
  ELSE IF deepEqual(r.h, {}, oldArr[i + 1], newArr[i + 1])
  THEN NestedFrom(r, oldArr, newArr, basePath, options, currentDepth, i + 1)
  ELSE NestedFrom(PushAll(r, createPatch(r.h, oldArr[i + 1], newArr[i + 1],
                                         basePath \o IndexPath(i), options,
                                         currentDepth + 1)),
                  oldArr, newArr, basePath, options, currentDepth, i + 1)

\* handleObjects(oldObj, newObj, basePath, options, currentDepth): the loop
\* over newKeys from position i, c being [options, currentDepth]
ObjectsFrom(r, oldObj, newObj, oldKeys, newKeys, basePath, c, i) ==
  IF Failed(r) \/ i > Len(newKeys) THEN r
  ELSE IF ~HasKey(oldKeys, newKeys[i])
  THEN ObjectsFrom(Ok(r.h, Append(r.val,
                                  Op("add", concatPath(basePath, newKeys[i]),
                                     NotAString,
                                     GetProp(r.h, newObj, newKeys[i]), 0))),
                   oldObj, newObj, oldKeys, newKeys, basePath, c, i + 1)
  ELSE IF deepEqual(r.h, {}, GetProp(r.h, oldObj, newKeys[i]),
                    GetProp(r.h, newObj, newKeys[i]))
  THEN ObjectsFrom(r, oldObj, newObj, oldKeys, newKeys, basePath, c, i + 1)
  ELSE ObjectsFrom(PushAll(r, createPatch(r.h,
                                          GetProp(r.h, oldObj, newKeys[i]),
                                          GetProp(r.h, newObj, newKeys[i]),
                                          concatPath(basePath, newKeys[i]),
                                          c.options, c.currentDepth + 1)),
                   oldObj, newObj, oldKeys, newKeys, basePath, c, i + 1)

(***************************************************************************)
(* array-utils.ts expandArrayOperations                                    *)
(***************************************************************************)
\* String(startIndex + i) where startIndex is parseInt(index, 10), or
\* Infinity when forAdd and index is '-'
ExpandedIndex(index, i, forAdd) ==
  IF index = <<"-">>
  THEN IF forAdd THEN <<"I", "n", "f", "i", "n", "i", "t", "y">>
       ELSE <<"N", "a", "N">>
  ELSE ToStr(parseInt(index) + i)

RECURSIVE ExpandAdds(_, _, _, _)
\* op.value.forEach((value, i) => expanded.push({op: 'add', ...})) from i on;
\* forEach skips the holes of the array
ExpandAdds(basePath, index, values, i) ==
  IF i >= Len(values) THEN <<>>
  ELSE (IF IsHole(values[i + 1]) THEN <<>>
        ELSE <<OpAdd(basePath \o <<"/">> \o ExpandedIndex(index, i, TRUE),
                     values[i + 1])>>)
       \o ExpandAdds(basePath, index, values, i + 1)

\* what one operation of the patch pushes to expanded
ExpandOperation(h, op) ==
  IF op.op = "remove" /\ op.count # 0
  THEN With(getArrayPath(op.path), LAMBDA arrayPath :
         IF ~arrayPath.matched THEN <<op>>
         ELSE [i \in 1..op.count |->
                 OpRemove(arrayPath.basePath \o <<"/">>
                            \o ExpandedIndex(arrayPath.index, 0, FALSE))])
  ELSE IF op.op = "add" /\ op.value # Absent /\ IsArray(h, op.value)
  THEN With(getArrayPath(op.path), LAMBDA arrayPath :
         IF ~arrayPath.matched THEN <<op>>
         ELSE ExpandAdds(arrayPath.basePath, arrayPath.index,
                         Elems(h[Addr(op.value)]), 0))
  ELSE <<op>>

RECURSIVE expandArrayOperations(_, _)
\* expandArrayOperations(patch)
expandArrayOperations(h, patch) ==
  IF patch = <<>> THEN <<>>
  ELSE ExpandOperation(h, Head(patch)) \o expandArrayOperations(h, Tail(patch))

(***************************************************************************)
(* The executor as a state machine: one call of applyPatch,                *)
(* applyPatchImmutable or applyPatchWithRollback on a document, one        *)
(* operation of the patch per step                                         *)
(***************************************************************************)
VARIABLES
  heap,       \* the objects and arrays of the program
  doc,        \* the literal the document was built from
  target,     \* the document the caller passes
  work,       \* the object the operations are applied to (target or a clone)
  backup,     \* the deep clone taken before the patch
  patch,      \* the patch that is being applied
  opts,       \* the merged options of the call
  api,        \* the function that was called
  pc,         \* idle, running, catch, failed, done
  idx,        \* the operation the loop is at
  err,        \* the error thrown, NoErr when none
  inverse,    \* the inverse patch that was created
  phase,      \* 1 while the caller's patch is applied, 2 for its inverse
  heap0,      \* history: the heap when the loop was entered
  pre,        \* history: the snapshot of target when the call was made
  attempted   \* history: <<index, threw>> of each applyOperation call

execVars ==
  <<heap, doc, target, work, backup, patch, opts, api, pc, idx, err, inverse,
    phase, heap0, pre, attempted>>

VARIABLES
  lcsCache,   \* the module-level lcsCache of lcs.ts
  lcsCalls,   \* the calls made so far; the clock that Date.now() reads
  lastCall    \* history: the last call of lcs.ts with its result

lcsVars == <<lcsCache, lcsCalls, lastCall>>

VARIABLES
  arrHeap,    \* the objects the arrays hold, and the arrays batching makes
  arrOld,     \* oldArr
  arrNew,     \* newArr
  arrOps,     \* what generateArrayOperations returned
  arrPatch,   \* what batchArrayOperations returned
  arrOut,     \* the copy of oldArr the patch is replayed on
  arrIdx,     \* the operation the replay is at
  arrPc       \* start, generated, replaying, replayed

arrVars ==
  <<arrHeap, arrOld, arrNew, arrOps, arrPatch, arrOut, arrIdx, arrPc>>

VARIABLES
  docB,       \* the literal the second document was built from
  targetB,    \* the second document, newObj of createPatch
  diffOpts    \* the options createPatch was given

diffVars == <<docB, targetB, diffOpts>>

VARIABLES
  batched,    \* the patch expandArrayOperations was given
  eqA,        \* a of deepEqual(a, b)
  eqB,        \* b of deepEqual(a, b)
  eqOut       \* what the call of deepEqual came to

VARIABLES
  ptr,               \* the string the last pointer utility was given
  ptrOut,            \* what that call came to
  pointerParseCache, \* the module-level pointerParseCache of utils.ts
  ptrCalls           \* the calls of pointer utilities made so far

ptrVars == <<ptr, ptrOut, pointerParseCache, ptrCalls>>

moreVars == <<batched, eqA, eqB, eqOut, ptrVars>>

otherVars == <<lcsVars, arrVars, diffVars, moreVars>>

vars == <<execVars, otherVars>>

NoCall == [fn |-> "none", arr1 |-> <<>>, arr2 |-> <<>>, result |-> <<>>]

\* lcs.ts as it is after the module was loaded
LcsLoaded ==
  /\ lcsCache = EmptyCache
  /\ lcsCalls = 0
  /\ lastCall = NoCall

\* no array is being diffed
ArrUnused ==
  /\ arrHeap = <<>>
  /\ arrOld = <<>>
  /\ arrNew = <<>>
  /\ arrOps = <<>>
  /\ arrPatch = <<>>
  /\ arrOut = <<>>
  /\ arrIdx = 0
  /\ arrPc = "unused"

\* no second document
DiffUnused ==
  /\ docB = TNum(0)
  /\ targetB = Undefined
  /\ diffOpts = <<>>

\* what eqOut holds before a call of deepEqual
NoOutcome == [fn |-> "none", val |-> "none"]

\* utils.ts as it is after the module was loaded
PtrUnused ==
  /\ ptr = <<>>
  /\ ptrOut = NoOutcome
  /\ pointerParseCache = {}
  /\ ptrCalls = 0

\* no patch is being expanded, no two values are being compared
MoreUnused ==
  /\ batched = <<>>
  /\ eqA = Undefined
  /\ eqB = Undefined
  /\ eqOut = NoOutcome
  /\ PtrUnused

OthersLoaded == LcsLoaded /\ ArrUnused /\ DiffUnused /\ MoreUnused

InitExec ==
  /\ doc \in Docs
  /\ heap = Load(PoolHeap, doc).h
  /\ target = Load(PoolHeap, doc).val
  /\ work = Undefined
  /\ backup = Undefined
  /\ patch = <<>>
  /\ opts = defaultOptions
  /\ api = "none"
  /\ pc = "idle"
  /\ idx = 0
  /\ err = NoErr
  /\ inverse = <<>>
  /\ phase = 1
  /\ heap0 = <<>>
  /\ pre = Undefined
  /\ attempted = <<>>
  /\ OthersLoaded

\* where a throw inside the function goes: to its catch block when it has one
ThrowPc(f) ==
  IF f \in {"applyPatchWithRollback", "applyPatchWithInverse"} THEN "catch"
  ELSE "failed"

\* the entry of applyPatch(w, p, o) inside the function f: validation, then
\* the loop
EnterApplyPatch(f, h, w, p, o) ==
  /\ api' = f
  /\ heap' = h
  /\ heap0' = h
  /\ work' = w
  /\ patch' = p
  /\ opts' = o
  /\ pre' = Snap(heap, target, MaxSnapDepth)
  /\ idx' = 1
  /\ attempted' = <<>>
  /\ \E invalid \in {IF o.validate THEN validatePatch(p) ELSE NoErr} :
       /\ err' = invalid
       /\ pc' = IF invalid # NoErr THEN ThrowPc(f) ELSE "running"
  /\ UNCHANGED <<doc, target, inverse, phase>>

\* applyPatch(target, patch, options)
CallApplyPatch ==
  /\ pc = "idle"
  /\ \E p \in Patches(doc), v \in BOOLEAN :
        EnterApplyPatch("applyPatch", heap, target, p,
                        [defaultOptions EXCEPT !.validate = v])
  /\ UNCHANGED backup
  /\ UNCHANGED otherVars

\* applyPatchImmutable(target, patch): const clone = deepClone(target)
CallApplyPatchImmutable ==
  /\ pc = "idle"
  /\ \E p \in Patches(doc) :
       \E clone \in {deepClone(heap, {}, target)} :
         EnterApplyPatch("applyPatchImmutable", clone.h, clone.val, p,
                         defaultOptions)
  /\ UNCHANGED backup
  /\ UNCHANGED otherVars

\* applyPatchWithRollback(target, patch): const backup = deepClone(target)
CallApplyPatchWithRollback ==
  /\ pc = "idle"
  /\ \E p \in Patches(doc) :
       \E bk \in {deepClone(heap, {}, target)} :
         /\ backup' = bk.val
         /\ EnterApplyPatch("applyPatchWithRollback", bk.h, target, p,
                            defaultOptions)
  /\ UNCHANGED otherVars

\* applyPatchWithInverse(target, patch): original = deepClone(target), then
\* createInversePatch(original, patch, opts), which throws before the try
CallApplyPatchWithInverse ==
  /\ pc = "idle"
  /\ \E p \in Patches(doc) :
       \E original \in {deepClone(heap, {}, target)} :
         \E inversePatch \in {createInversePatch(original.h, original.val, p,
                                                 inverseDefaultOptions)} :
           /\ api' = "applyPatchWithInverse"
           /\ heap' = inversePatch.h
           /\ heap0' = inversePatch.h
           /\ backup' = original.val
           /\ work' = target
           /\ patch' = p
           /\ inverse' = inversePatch.ops
           /\ err' = inversePatch.err
           /\ pc' = IF inversePatch.err # NoErr THEN "failed" ELSE "running"
  /\ opts' = defaultOptions
  /\ pre' = Snap(heap, target, MaxSnapDepth)
  /\ idx' = 1
  /\ attempted' = <<>>
  /\ UNCHANGED <<doc, target, phase>>
  /\ UNCHANGED otherVars

\* const doc = deepClone(A); applyPatch(doc, P), to be followed by
\* applyPatch(doc, createInversePatch(A, P))
CallApplyThenInverse ==
  /\ pc = "idle"
  /\ \E p \in Patches(doc) :
       \E clone \in {deepClone(heap, {}, target)} :
         EnterApplyPatch("applyThenInverse", clone.h, clone.val, p,
                         defaultOptions)
  /\ UNCHANGED backup
  /\ UNCHANGED otherVars

\* the control state after applyOperation returned r for operation i: the
\* loop goes on to i + 1, or the throw leaves it
LoopAfter(f, r, i) ==
  IF Failed(r) THEN [pc |-> ThrowPc(f), idx |-> i]
  ELSE [pc |-> "running", idx |-> i + 1]

\* one iteration of for (const op of patch) applyOperation(target, op, opts)
StepOperation ==
  /\ pc = "running"
  /\ idx <= Len(patch)
  /\ \E r \in {applyOperation(heap, work, patch[idx], opts)} :
       /\ heap' = r.h
       /\ err' = r.err
       /\ pc' = LoopAfter(api, r, idx).pc
       /\ idx' = LoopAfter(api, r, idx).idx
       /\ attempted' = Append(attempted, <<idx, Failed(r)>>)
  /\ UNCHANGED <<doc, target, work, backup, patch, opts, api, inverse, phase,
                 heap0, pre>>
  /\ UNCHANGED otherVars

\* the loop is over: the function returns
Return ==
  /\ pc = "running"
  /\ idx > Len(patch)
  /\ pc' = "done"
  /\ UNCHANGED <<heap, doc, target, work, backup, patch, opts, api, idx, err,
                 inverse, phase, heap0, pre, attempted>>
  /\ UNCHANGED otherVars

\* catch (error) of applyPatchWithRollback: clean target, restore, rethrow
CatchRollback ==
  /\ pc = "catch"
  /\ api = "applyPatchWithRollback"
  /\ heap' = RollbackCatch(heap, target, backup)
  /\ err' = Rethrown(err)
  /\ pc' = "failed"
  /\ UNCHANGED <<doc, target, work, backup, patch, opts, api, idx, inverse,
                 phase, heap0, pre, attempted>>
  /\ UNCHANGED otherVars

\* catch (error) of applyPatchWithInverse: Object.assign(target, original)
CatchInverse ==
  /\ pc = "catch"
  /\ api = "applyPatchWithInverse"
  /\ heap' = ObjectAssign(heap, target, backup)
  /\ pc' = "failed"
  /\ UNCHANGED <<doc, target, work, backup, patch, opts, api, idx, err,
                 inverse, phase, heap0, pre, attempted>>
  /\ UNCHANGED otherVars

\* applyPatch(doc, createInversePatch(A, P)) once applyPatch(doc, P) returned
ApplyInverse ==
  /\ pc = "done"
  /\ api = "applyThenInverse"
  /\ phase = 1
  /\ \E b \in BOOLEAN :
       \E inversePatch \in
            {createInversePatch(heap, target, patch,
                                [inverseDefaultOptions EXCEPT
                                   !.batchArrayOps = b])} :
         \E invalid \in {IF inversePatch.err # NoErr THEN inversePatch.err
                         ELSE validatePatch(inversePatch.ops)} :
           /\ heap' = inversePatch.h
           /\ heap0' = inversePatch.h
           /\ inverse' = inversePatch.ops
           /\ patch' = inversePatch.ops
           /\ err' = invalid
           /\ pc' = IF invalid # NoErr THEN "failed" ELSE "running"
  /\ phase' = 2
  /\ idx' = 1
  /\ attempted' = <<>>
  /\ UNCHANGED <<doc, target, work, backup, opts, api, pre>>
  /\ UNCHANGED otherVars

NextExec ==
  \/ CallApplyPatch
  \/ CallApplyPatchImmutable
  \/ CallApplyPatchWithRollback
  \/ CallApplyPatchWithInverse
  \/ CallApplyThenInverse
  \/ StepOperation
  \/ Return
  \/ CatchRollback
  \/ CatchInverse
  \/ ApplyInverse

SpecExec == InitExec /\ [][NextExec]_vars

(***************************************************************************)
(* Claims about the executor                                               *)
(***************************************************************************)
\* the call failed in the loop, at operation Len(attempted)
FailedInLoop == pc = "failed" /\ attempted # <<>>

\* the heap that operations 1..k-1 of the call leave, from the heap of the call
AfterPrefix(k) == ApplyFrom(heap0, work, SubSeq(patch, 1, k - 1), 1, opts)

\* C3: when applyPatchWithRollback(doc, P) raises, doc deep-equals its state
\* from before the call.
C3_RollbackRestores ==
  (api = "applyPatchWithRollback" /\ pc = "failed")
    => Snap(heap, target, MaxSnapDepth) = pre

\* C4: when operation k of applyPatch is the first to fail, the document is
\* what operations 1..k-1 left (their effects remain), and no later operation
\* has been applied.
C4_PrefixEffectsRemain ==
  (api = "applyPatch" /\ FailedInLoop)
    => /\ \A j \in 1..Len(attempted) : attempted[j][1] = j
       /\ Snap(heap, work, MaxSnapDepth)
            = Snap(AfterPrefix(Len(attempted)).h, work, MaxSnapDepth)

\* C5: applyPatchImmutable(doc, P) never mutates doc: at every point of the
\* call, and whether it returns or raises, doc deep-equals its state from
\* before the call.
C5_ImmutableKeepsDoc ==
  api = "applyPatchImmutable" => Snap(heap, target, MaxSnapDepth) = pre

\* the immutable call returned a document that differs from the original
C5_Witness ==
  /\ api = "applyPatchImmutable"
  /\ pc = "done"
  /\ Snap(heap, work, MaxSnapDepth) # pre

\* an operation with an unknown op, a missing required field (path, value,
\* from) or a syntactically invalid pointer
IsMalformedOp(op) ==
  \/ op.op \notin OpNames
  \/ op.path = NotAString
  \/ validateJsonPointer(op.path) # NoErr
  \/ (op.op \in {"add", "replace", "test"} /\ op.value = Absent)
  \/ (op.op \in {"move", "copy"}
        /\ (op.from = NotAString \/ validateJsonPointer(op.from) # NoErr))

\* C6: with validation on, a patch that holds a malformed operation never
\* mutates the document: applyPatch does not return, and at every point of the
\* call the document is as it was before the call.
C6_MalformedRejectedBeforeMutation ==
  (/\ api = "applyPatch"
   /\ opts.validate
   /\ \E i \in 1..Len(patch) : IsMalformedOp(patch[i]))
    => /\ pc # "done"
       /\ Snap(heap, target, MaxSnapDepth) = pre

\* the array a remove operation addresses, and the index in it
RemoveParent(h, w, op) ==
  LET segs == parsePointer(op.path).segs
  IN GetWalk(h, w, SubSeq(segs, 1, Len(segs) - 1), 1)
RemoveIndex(op) ==
  LET segs == parsePointer(op.path).segs IN parseInt(segs[Len(segs)])

\* C10: a remove with count n > 1 at index i of an array deletes the n
\* elements i..i+n-1 when i+n <= length, and fails with the array unchanged
\* when i+n > length.
C10_RemoveCount ==
  [][(/\ pc = "running"
      /\ idx <= Len(patch)
      /\ patch[idx].op = "remove"
      /\ patch[idx].count > 1
      /\ IsArray(heap, RemoveParent(heap, work, patch[idx])))
       => LET arr == RemoveParent(heap, work, patch[idx])
              i == RemoveIndex(patch[idx])
              n == patch[idx].count
              before == Elems(heap[Addr(arr)])
              after == Elems(heap'[Addr(arr)])
          IN IF i + n <= Len(before)
             THEN err' = NoErr /\ after = SpliceOut(before, i, n)
             ELSE err' # NoErr /\ after = before]_vars

\* C2: when P applies to a clone of A without error, applying
\* createInversePatch(A, P) to the result yields a document that deep-equals A.
C2_InverseRestores ==
  (api = "applyThenInverse" /\ phase = 2 /\ pc = "done")
    => Snap(heap, work, MaxSnapDepth) = pre

\* C9: when applyPatchWithInverse(target, P) raises, target deep-equals its
\* state from before the call.
C9_WithInverseRestores ==
  (api = "applyPatchWithInverse" /\ pc = "failed")
    => Snap(heap, target, MaxSnapDepth) = pre

\* the patch of the call holds copy and test operations only
OnlyCopyAndTest(p) ==
  /\ p # <<>>
  /\ \A i \in 1..Len(p) : p[i].op \in {"copy", "test"}

LcsHeap == <<ObjCell(<<K("a")>>, <<Num(1)>>), ObjCell(<<K("a")>>, <<Num(2)>>)>>

LcsArrays ==
  { <<>>, <<Num(1)>>, <<Ref(1)>>, <<Ref(2)>>, <<Num(1), Ref(1)>>,
    <<Ref(2), Num(1)>>, <<Num(1), Num(2), Num(1)>>,
    <<Num(2), Num(1), Num(2)>> }

\* the calls one run makes
MaxCalls == 2

\* the documents of the executor are not part of this machine
ExecUnused ==
  /\ doc = TNum(0)
  /\ heap = LcsHeap
  /\ target = Undefined
  /\ work = Undefined
  /\ backup = Undefined
  /\ patch = <<>>
  /\ opts = defaultOptions
  /\ api = "none"
  /\ pc = "unused"
  /\ idx = 0
  /\ err = NoErr
  /\ inverse = <<>>
  /\ phase = 1
  /\ heap0 = <<>>
  /\ pre = Undefined
  /\ attempted = <<>>

InitLCS == ExecUnused /\ LcsLoaded /\ ArrUnused /\ DiffUnused /\ MoreUnused

CallFindLCS ==
  /\ lcsCalls < MaxCalls
  /\ \E a \in LcsArrays, b \in LcsArrays :
       \E r \in {findLCS(heap, lcsCache, lcsCalls + 1, a, b)} :
         /\ lcsCache' = r.cache
         /\ lastCall' = [fn |-> "findLCS", arr1 |-> a, arr2 |-> b,
                         result |-> r.indices]
  /\ lcsCalls' = lcsCalls + 1
  /\ UNCHANGED <<execVars, arrVars, diffVars, moreVars>>

CallGetArraySimilarity ==
  /\ lcsCalls < MaxCalls
  /\ \E a \in LcsArrays, b \in LcsArrays :
       \E r \in {getArraySimilarity(heap, lcsCache, lcsCalls + 1, a, b)} :
         /\ lcsCache' = r.cache
         /\ lastCall' = [fn |-> "getArraySimilarity", arr1 |-> a, arr2 |-> b,
                         result |-> r.similarity]
  /\ lcsCalls' = lcsCalls + 1
  /\ UNCHANGED <<execVars, arrVars, diffVars, moreVars>>

CallClearLCSCache ==
  /\ lcsCalls < MaxCalls
  /\ lcsCache' = clearLCSCache
  /\ lastCall' = [NoCall EXCEPT !.fn = "clearLCSCache"]
  /\ lcsCalls' = lcsCalls + 1
  /\ UNCHANGED <<execVars, arrVars, diffVars, moreVars>>

NextLCS ==
  \/ CallFindLCS
  \/ CallGetArraySimilarity
  \/ CallClearLCSCache

SpecLCS == InitLCS /\ [][NextLCS]_vars

\* C8: whatever calls came before, findLCS(a, b) returns what it returns on
\* an empty cache
C8_CacheNeverChangesResult ==
  lastCall.fn = "findLCS" =>
    lastCall.result =
      findLCS(heap, EmptyCache, 0, lastCall.arr1, lastCall.arr2).indices

\* the elements of arr at the 0-based indices, in their order
ElementsAt(arr, indices) == [p \in 1..Len(indices) |-> arr[indices[p] + 1]]

StrictlyIncreasing(indices) ==
  \A p \in 1..(Len(indices) - 1) : indices[p] < indices[p + 1]

RECURSIVE IsSubsequence(_, _, _, _, _)
\* xs from position p on is a subsequence of b from position q on, under
\* deep equality
IsSubsequence(h, xs, b, p, q) ==
  IF p > Len(xs) THEN TRUE
  ELSE IF q > Len(b) THEN FALSE
  ELSE IF ElemEqual(h, xs[p], b[q]) THEN IsSubsequence(h, xs, b, p + 1, q + 1)
  ELSE IsSubsequence(h, xs, b, p, q + 1)

\* the 0-based positions of a set of positions, in increasing order
RECURSIVE InOrder(_, _, _)
InOrder(S, i, n) ==
  IF i >= n THEN <<>>
  ELSE (IF i \in S THEN <<i>> ELSE <<>>) \o InOrder(S, i + 1, n)

\* the lengths of the common subsequences of a and b
CommonLengths(h, a, b) ==
  {Cardinality(S) : S \in {T \in SUBSET (0..(Len(a) - 1)) :
     IsSubsequence(h, ElementsAt(a, InOrder(T, 0, Len(a))), b, 1, 1)}}

\* indices is what C19 asks of findLCS(a, b)
IsLongestCommon(h, a, b, indices) ==
  /\ \A p \in 1..Len(indices) : indices[p] \in 0..(Len(a) - 1)
  /\ StrictlyIncreasing(indices)
  /\ IsSubsequence(h, ElementsAt(a, indices), b, 1, 1)
  /\ \A n \in CommonLengths(h, a, b) : n <= Len(indices)

\* C19: findLCS(a, b) returns a strictly increasing list of indices into a
\* whose elements form a subsequence of b under deep equality, and no longer
\* common subsequence of a and b exists
C19_FindLCSIsLongestCommon ==
  lastCall.fn = "findLCS" =>
    IsLongestCommon(heap, lastCall.arr1, lastCall.arr2, lastCall.result)

\* the same of the first call, which finds the cache empty
C19_FirstCallIsLongestCommon ==
  (lastCall.fn = "findLCS" /\ lcsCalls = 1) =>
    IsLongestCommon(heap, lastCall.arr1, lastCall.arr2, lastCall.result)

(***************************************************************************)
(* array-utils.ts as a state machine: generateArrayOperations(old, new),   *)
(* batchArrayOperations of its result, and the replay of the patch on a    *)
(* copy of old, one operation per step                                     *)
(***************************************************************************)
ArrElems == {Num(1), Num(2), Ref(1)}

\* the longest array
MaxArrLen == 3

ArrPool == SeqsUpTo(ArrElems, MaxArrLen)

InitArr ==
  /\ ExecUnused
  /\ LcsLoaded
  /\ DiffUnused
  /\ MoreUnused
  /\ arrHeap = LcsHeap
  /\ arrOld \in ArrPool
  /\ arrNew \in ArrPool
  /\ arrOps = <<>>
  /\ arrPatch = <<>>
  /\ arrOut = <<>>
  /\ arrIdx = 0
  /\ arrPc = "start"

\* const operations = generateArrayOperations(oldArr, newArr)
CallGenerateArrayOperations ==
  /\ arrPc = "start"
  /\ \E r \in {generateArrayOperations(arrHeap, lcsCache, lcsCalls + 1,
                                        arrOld, arrNew)} :
       /\ lcsCache' = r.cache
       /\ arrOps' = r.operations
  /\ lcsCalls' = lcsCalls + 1
  /\ arrPc' = "generated"
  /\ UNCHANGED <<execVars, diffVars, moreVars, lastCall, arrHeap, arrOld, arrNew,
                 arrPatch, arrOut, arrIdx>>

\* const patch = batchArrayOperations(operations); const result = [...oldArr]
CallBatchArrayOperations ==
  /\ arrPc = "generated"
  /\ \E r \in {batchArrayOperations(arrHeap, arrOps, defaultMaxBatchSize)} :
       /\ arrHeap' = r.h
       /\ arrPatch' = r.patch
       /\ arrPc' = IF r.patch = <<>> THEN "replayed" ELSE "replaying"
  /\ arrOut' = arrOld
  /\ arrIdx' = 1
  /\ UNCHANGED <<execVars, lcsVars, diffVars, moreVars, arrOld, arrNew, arrOps>>

\* one iteration of patch.forEach(op => ...)
ReplayStep ==
  /\ arrPc = "replaying"
  /\ arrOut' = ReplayOp(arrHeap, arrOut, arrPatch[arrIdx])
  /\ arrIdx' = arrIdx + 1
  /\ arrPc' = IF arrIdx = Len(arrPatch) THEN "replayed" ELSE "replaying"
  /\ UNCHANGED <<execVars, lcsVars, diffVars, moreVars, arrHeap, arrOld, arrNew,
                 arrOps, arrPatch>>

NextArr ==
  \/ CallGenerateArrayOperations
  \/ CallBatchArrayOperations
  \/ ReplayStep

SpecArr == InitArr /\ [][NextArr]_vars

\* expect(result).toEqual(expected) for two arrays
ArraysEqual(h, result, expected) ==
  /\ Len(result) = Len(expected)
  /\ \A i \in 1..Len(result) :
       Snap(h, result[i], MaxSnapDepth) = Snap(h, expected[i], MaxSnapDepth)

\* C7: the batched operations of generateArrayOperations(old, new), replayed
\* in order on a copy of old, give an array that deep-equals new
C7_ReplayReproducesNew ==
  arrPc = "replayed" => ArraysEqual(arrHeap, arrOut, arrNew)

(***************************************************************************)
(* createPatch and applyPatch together: applyPatch(deepClone(A),           *)
(* createPatch(A, B, '', options)), the operations applied one per step    *)
(***************************************************************************)
DiffDocs ==
  { DocAB,
    TObj(<<K("a")>>, <<TNum(1)>>),
    TObj(<<K("a")>>, <<TArr(<<TNum(1), TNum(2)>>)>>),
    TObj(<<K("a")>>, <<TArr(<<TNum(2), TNum(1)>>)>>),
    TObj(<<K("a")>>, <<TArr(<<TNum(1), TNum(2), TNum(3)>>)>>),
    TObj(<<K("a")>>, <<TObj(<<K("b")>>, <<TNum(1)>>)>>),
    TObj(<<K("a")>>, <<TArr(<<TObj(<<K("b")>>, <<TNum(1)>>)>>)>>),
    TArr(<<TNum(1), TNum(2)>>),
    TArr(<<TNum(2), TNum(3), TNum(1)>>),
    TArr(<<>>) }

\* the options of a call that gives detectMove and batchArrayOps
DiffOptions(detectMove, batchArrayOps) ==
  [detectMove |-> detectMove, batchArrayOps |-> batchArrayOps,
   checkCircular |-> TRUE, maxBatchSize |-> defaultMaxBatchSize,
   maxDepth |-> -1]

InitDiff ==
  /\ doc \in DiffDocs
  /\ docB \in DiffDocs
  /\ heap = Load(Load(<<>>, doc).h, docB).h
  /\ target = Load(<<>>, doc).val
  /\ targetB = Load(Load(<<>>, doc).h, docB).val
  /\ diffOpts = <<>>
  /\ work = Undefined
  /\ backup = Undefined
  /\ patch = <<>>
  /\ opts = defaultOptions
  /\ api = "none"
  /\ pc = "idle"
  /\ idx = 0
  /\ err = NoErr
  /\ inverse = <<>>
  /\ phase = 1
  /\ heap0 = <<>>
  /\ pre = Undefined
  /\ attempted = <<>>
  /\ LcsLoaded
  /\ ArrUnused
  /\ MoreUnused

\* applyPatch(deepClone(A), createPatch(A, B, '', options)): the arguments
\* are evaluated from the left, then applyPatch validates and enters its loop
CallCreatePatchThenApply ==
  /\ pc = "idle"
  /\ \E detectMove \in BOOLEAN, batchArrayOps \in BOOLEAN :
       \E clone \in {deepClone(heap, {}, target)} :
         \E created \in {createPatch(clone.h, target, targetB, <<>>,
                                     DiffOptions(detectMove, batchArrayOps),
                                     0)} :
           \E invalid \in {IF Failed(created) THEN created.err
                           ELSE validatePatch(created.val)} :
             /\ diffOpts' = DiffOptions(detectMove, batchArrayOps)
             /\ heap' = created.h
             /\ heap0' = created.h
             /\ work' = clone.val
             /\ patch' = IF Failed(created) THEN <<>> ELSE created.val
             /\ err' = invalid
             /\ pc' = IF invalid # NoErr THEN "failed" ELSE "running"
  /\ api' = "createPatchThenApply"
  /\ opts' = defaultOptions
  /\ pre' = Snap(heap, target, MaxSnapDepth)
  /\ idx' = 1
  /\ attempted' = <<>>
  /\ UNCHANGED <<doc, target, backup, inverse, phase, docB, targetB, lcsVars,
                 arrVars, moreVars>>

NextDiff ==
  \/ CallCreatePatchThenApply
  \/ StepOperation
  \/ Return

SpecDiff == InitDiff /\ [][NextDiff]_vars

\* C1: applyPatch(clone(A), createPatch(A, B)) returns, and the document it
\* leaves deep-equals B, whatever detectMove and batchArrayOps are
C1_RoundTrip ==
  api = "createPatchThenApply" /\ pc \in {"done", "failed"} =>
    /\ pc = "done"
    /\ Snap(heap, work, MaxSnapDepth) = Snap(heap, targetB, MaxSnapDepth)

(***************************************************************************)
(* expandArrayOperations and applyPatch together: applyPatch(clone,        *)
(* expandArrayOperations(P)) one operation per step, against               *)
(* applyPatch(clone, P)                                                    *)
(***************************************************************************)
\* the values the patches carry: {x: 1} and the array [4, 5]
ExpHeap == <<ObjCell(<<K("x")>>, <<Num(1)>>), ArrCell(<<Num(4), Num(5)>>)>>
VArr == Ref(2)

ExpDocs == {DocR, DocArr}

ExpOps(d) ==
  IF d = DocR
  THEN { OpRemoveCount(P2("r", "1"), 2), OpRemoveCount(P2("r", "0"), 1),
         OpRemove(P2("r", "0")), OpAdd(P2("r", "-"), VArr),
         OpAdd(P2("r", "1"), VArr), OpAdd(P2("r", "0"), Num(9)),
         OpAdd(P1("q"), VArr) }
  ELSE { OpAdd(P1("0"), VArr), OpAdd(P1("-"), VArr),
         OpRemoveCount(P1("0"), 1), OpAdd(P1("1"), Num(2)) }

\* the executor before any call, on the document doc
ExecIdle ==
  /\ work = Undefined
  /\ backup = Undefined
  /\ patch = <<>>
  /\ opts = defaultOptions
  /\ api = "none"
  /\ pc = "idle"
  /\ idx = 0
  /\ err = NoErr
  /\ inverse = <<>>
  /\ phase = 1
  /\ heap0 = <<>>
  /\ pre = Undefined
  /\ attempted = <<>>

InitExpand ==
  /\ doc \in ExpDocs
  /\ heap = Load(ExpHeap, doc).h
  /\ target = Load(ExpHeap, doc).val
  /\ ExecIdle
  /\ OthersLoaded

\* applyPatch(deepClone(doc), expandArrayOperations(P))
CallApplyExpanded ==
  /\ pc = "idle"
  /\ \E p \in SeqsUpTo(ExpOps(doc), MaxPatchLen) :
       \E clone \in {deepClone(heap, {}, target)} :
         /\ batched' = p
         /\ EnterApplyPatch("applyExpanded", clone.h, clone.val,
                            expandArrayOperations(clone.h, p), defaultOptions)
  /\ UNCHANGED backup
  /\ UNCHANGED <<lcsVars, arrVars, diffVars, eqA, eqB, eqOut, ptrVars>>

NextExpand ==
  \/ CallApplyExpanded
  \/ StepOperation
  \/ Return

SpecExpand == InitExpand /\ [][NextExpand]_vars

\* a remove with count > 1, or an add of an array at an index or at "-"
IsBatchedOp(h, op) ==
  \/ op.op = "remove" /\ op.count > 1
  \/ /\ op.op = "add"
     /\ IsArray(h, op.value)
     /\ getArrayPath(op.path).matched

\* C11: for a patch P that holds batched operations, applying
\* expandArrayOperations(P) to a document leaves the same document as
\* applying P itself
C11_ExpandedSameDocument ==
  (/\ api = "applyExpanded"
   /\ pc \in {"done", "failed"}
   /\ \E i \in 1..Len(batched) : IsBatchedOp(heap0, batched[i]))
    => Snap(heap, work, MaxSnapDepth)
         = Snap(applyPatch(heap0, work, batched, opts).h, work, MaxSnapDepth)

(***************************************************************************)
(* applyPatch on a document with a nested object and an array: the single  *)
(* operations and what they leave                                          *)
(***************************************************************************)
InitOp ==
  /\ doc = DocNest
  /\ heap = Load(PoolHeap, doc).h
  /\ target = Load(PoolHeap, doc).val
  /\ ExecIdle
  /\ OthersLoaded

NextOp ==
  \/ CallApplyPatch
  \/ StepOperation
  \/ Return

SpecOp == InitOp /\ [][NextOp]_vars

\* the reference tokens of a pointer
Segs(pointer) == parsePointer(pointer).segs

RECURSIVE Resolves(_, _, _)
\* the reference tokens lead from v to an existing object member or array
\* element: a member the object has, an index below the length of the array
Resolves(h, v, segs) ==
  IF segs = <<>> THEN TRUE
  ELSE IF ~IsRef(v) THEN FALSE
  ELSE IF IsArray(h, v)
  THEN /\ IsIndexKey(Head(segs))
       /\ parseInt(Head(segs)) < Len(Elems(h[Addr(v)]))
       /\ Resolves(h, Elems(h[Addr(v)])[parseInt(Head(segs)) + 1], Tail(segs))
  ELSE /\ HasKey(Keys(h[Addr(v)]), Head(segs))
       /\ Resolves(h, GetProp(h, v, Head(segs)), Tail(segs))

\* applyOperation is about to run an operation named o
About(o) == pc = "running" /\ idx <= Len(patch) /\ patch[idx].op = o

\* C14: a remove whose path does not address an existing object member or
\* array element fails with an error and leaves the document unchanged
C14_RemoveMissingFails ==
  [][(About("remove") /\ ~Resolves(heap, work, Segs(patch[idx].path)))
       => /\ err' # NoErr
          /\ Snap(heap', work, MaxSnapDepth) = Snap(heap, work, MaxSnapDepth)
    ]_vars

RECURSIVE SnapPut(_, _, _)
\* the snapshot s with the value the reference tokens address replaced by v
SnapPut(s, segs, v) ==
  IF segs = <<>> THEN v
  ELSE IF s[1] = "A"
  THEN <<"A", [s[2] EXCEPT ![parseInt(Head(segs)) + 1] =
                  SnapPut(@, Tail(segs), v)]>>
  ELSE <<"O", [s[2] EXCEPT ![Head(segs)] = SnapPut(@, Tail(segs), v)]>>

\* C15: a replace fails, leaving the document unchanged, whenever its path
\* does not resolve to a value (a path ending in "-" never resolves);
\* otherwise it overwrites exactly the addressed value and nothing else
C15_ReplaceOverwritesOrFails ==
  [][About("replace")
       => IF Resolves(heap, work, Segs(patch[idx].path))
          THEN /\ err' = NoErr
               /\ Snap(heap', work, MaxSnapDepth)
                    = SnapPut(Snap(heap, work, MaxSnapDepth),
                              Segs(patch[idx].path),
                              Snap(heap, patch[idx].value, MaxSnapDepth))
          ELSE /\ err' # NoErr
               /\ Snap(heap', work, MaxSnapDepth)
                    = Snap(heap, work, MaxSnapDepth)
    ]_vars

\* a reference token that is the text of an integer: "0", "5", "-1"
IsIntegerToken(s) ==
  \/ AllDigits(s)
  \/ (Len(s) > 1 /\ Head(s) = "-" /\ AllDigits(Tail(s)))

\* the value the parent tokens of a pointer lead to
ParentValue(h, w, pointer) ==
  GetWalk(h, w, SubSeq(Segs(pointer), 1, Len(Segs(pointer)) - 1), 1)

\* the last reference token of a pointer
LastToken(pointer) == Segs(pointer)[Len(Segs(pointer))]

\* the operation at hand addresses the integer index of an existing array
AtArrayIndex ==
  /\ Segs(patch[idx].path) # <<>>
  /\ Resolves(heap, work,
              SubSeq(Segs(patch[idx].path), 1, Len(Segs(patch[idx].path)) - 1))
  /\ IsArray(heap, ParentValue(heap, work, patch[idx].path))
  /\ IsIntegerToken(LastToken(patch[idx].path))

\* C16: an add at the numeric index i of an array succeeds only when
\* 0 <= i <= length; for every other index it fails with ArrayIndexError and
\* the array is left unchanged
C16_AddIndexBounds ==
  [][(About("add") /\ AtArrayIndex)
       => LET arr == ParentValue(heap, work, patch[idx].path)
              i == parseInt(LastToken(patch[idx].path))
          IN (i < 0 \/ i > Len(Elems(heap[Addr(arr)])))
               => /\ err' = "ARRAY_INDEX_ERROR"
                  /\ Elems(heap'[Addr(arr)]) = Elems(heap[Addr(arr)])
    ]_vars

\* the tokens of from are a strict prefix of the tokens of path
IsStrictPrefix(from, path) ==
  /\ from # NotAString
  /\ Len(Segs(from)) < Len(Segs(path))
  /\ SubSeq(Segs(path), 1, Len(Segs(from))) = Segs(from)

\* C17: a move whose from pointer is a strict prefix of its path pointer
\* fails, and the document is left unchanged
C17_MoveIntoItselfFails ==
  [][(About("move") /\ IsStrictPrefix(patch[idx].from, patch[idx].path))
       => /\ err' # NoErr
          /\ pc' = "failed"
          /\ Snap(heap', work, MaxSnapDepth) = Snap(heap, work, MaxSnapDepth)
    ]_vars

\* applyOperation has thrown on the move of /c to /c/y, after an operation
\* that changed the document
C17_Witness ==
  /\ api = "applyPatch"
  /\ pc = "failed"
  /\ idx = 2
  /\ attempted = <<(<<1, FALSE>>), (<<2, TRUE>>)>>
  /\ patch[2] = OpMove(P1("c"), P2("c", "y"))
  /\ err = "INVALID_OPERATION"
  /\ Snap(heap, work, MaxSnapDepth) # pre

RECURSIVE ReachFrom(_, _, _)
\* the objects and arrays that v is or holds, d levels deep
ReachFrom(h, v, d) ==
  IF ~IsRef(v) \/ d = 0 THEN {}
  ELSE LET c == h[Addr(v)]
           held == IF CellIsArr(c) THEN Elems(c) ELSE Vals(c)
       IN {Addr(v)}
            \cup UNION {ReachFrom(h, held[i], d - 1) : i \in 1..Len(held)}

\* the value a pointer addresses in the document w
ValueAt(h, w, pointer) == GetWalk(h, w, Segs(pointer), 1)

\* the member or element a pointer names: its container and its last token
Slot(h, w, pointer) == <<ParentValue(h, w, pointer), LastToken(pointer)>>

\* the location of pointer p lies inside the value that pointer q addresses
LiesInside(h, w, p, q) ==
  /\ IsRef(ParentValue(h, w, p))
  /\ Addr(ParentValue(h, w, p))
       \in ReachFrom(h, ValueAt(h, w, q), MaxSnapDepth)

\* from and path name two members or elements, neither inside the value at
\* the other
Apart(h, w, from, path) ==
  /\ Slot(h, w, from) # Slot(h, w, path)
  /\ ~LiesInside(h, w, from, path)
  /\ ~LiesInside(h, w, path, from)

\* the pointers an operation writes at
Touched(op) == {op.path} \cup (IF op.op = "move" THEN {op.from} ELSE {})

\* the operation before the one at hand was a copy, and it succeeded
CopyDone == pc = "running" /\ idx > 1 /\ patch[idx - 1].op = "copy"

\* the next operation writes strictly inside the location at only
MutatesInside(at) ==
  /\ idx <= Len(patch)
  /\ \A t \in Touched(patch[idx]) : IsStrictPrefix(at, t)

\* the value at path shares no node with the value at from, and a mutation
\* under one of the two locations leaves the value at the other as it was
IndependentAfterCopy(cp) ==
  /\ ReachFrom(heap, ValueAt(heap, work, cp.from), MaxSnapDepth)
       \cap ReachFrom(heap, ValueAt(heap, work, cp.path), MaxSnapDepth) = {}
  /\ MutatesInside(cp.path)
       => Snap(heap', ValueAt(heap', work, cp.from), MaxSnapDepth)
            = Snap(heap, ValueAt(heap, work, cp.from), MaxSnapDepth)
  /\ MutatesInside(cp.from)
       => Snap(heap', ValueAt(heap', work, cp.path), MaxSnapDepth)
            = Snap(heap, ValueAt(heap, work, cp.path), MaxSnapDepth)

\* C18 as stated: after a successful copy from from to path, the value at path
\* shares no mutable node with the value at from, and any later mutation under
\* one of the two locations leaves the value at the other unchanged
C18_CopyIndependent ==
  [][CopyDone => IndependentAfterCopy(patch[idx - 1])]_vars

\* C18 as amended: the same, for a copy after which from and path do not name
\* the same member or element and neither location lies inside the value at
\* the other
C18_CopyIndependentWhenApart ==
  [][(CopyDone /\ Apart(heap, work, patch[idx - 1].from, patch[idx - 1].path))
       => IndependentAfterCopy(patch[idx - 1])]_vars

\* /c was copied to /e and a member was then added under /e
C18_Witness ==
  /\ api = "applyPatch"
  /\ pc = "done"
  /\ patch = <<OpCopy(P1("c"), P1("e")), OpAdd(P2("e", "y"), Num(5))>>
  /\ Snap(heap, ValueAt(heap, work, P1("e")), MaxSnapDepth)
       # Snap(heap, ValueAt(heap, work, P1("c")), MaxSnapDepth)

\* every operation of p passes validatePatch when it stands alone
EachOperationValid(p) == \A i \in 1..Len(p) : validatePatch(<<p[i]>>) = NoErr

\* C22: with default options, validation does not reject a patch merely
\* because two of its operations address the same path: a patch whose
\* operations are each valid enters the loop of applyPatch
C22_SamePathTwiceAccepted ==
  [][(pc = "idle" /\ api' = "applyPatch" /\ opts'.validate
        /\ EachOperationValid(patch'))
       => pc' = "running"]_vars

(***************************************************************************)
(* deepEqual as a state machine: one call of validate.ts deepEqual or of   *)
(* utils.ts deepEqual on two values of a heap that holds values which      *)
(* contain themselves                                                      *)
(***************************************************************************)
RECURSIVE deepEqualOnStack(_, _, _, _, _)
RECURSIVE EveryItem(_, _, _, _, _, _)
RECURSIVE EveryKey(_, _, _, _, _, _, _)
\* validate.ts deepEqual(a, b, seen) with its call stack: open holds the
\* calls <<a, b, seen>> that have not returned.  A call that is open already
\* repeats itself without end, and the engine throws RangeError (maximum call
\* stack size exceeded).  The outcome is "true", "false" or "RangeError".
deepEqualOnStack(h, seen, open, a, b) ==
  IF a = b THEN "true"
  ELSE IF ~IsRef(a) \/ ~IsRef(b) THEN "false"
  ELSE IF <<a, b, seen>> \in open THEN "RangeError"
  ELSE IF IsArray(h, a)
  THEN IF ~IsArray(h, b)
          \/ Len(Elems(h[Addr(a)])) # Len(Elems(h[Addr(b)]))
       THEN "false"
       ELSE EveryItem(h, seen, open \cup {<<a, b, seen>>}, a, b, 1)
  ELSE IF SeenHas(seen, Addr(a))
  THEN (IF SeenGet(seen, Addr(a)) = b THEN "true" ELSE "false")
  ELSE IF Len(OwnKeys(h, a)) # Len(OwnKeys(h, b)) THEN "false"
  ELSE EveryKey(h, SeenSet(seen, Addr(a), b), open \cup {<<a, b, seen>>},
                a, b, OwnKeys(h, a), 1)

\* a.every((item, index) => deepEqual(item, b[index], seen)), from item i on;
\* every skips the holes of a and stops at the first false
EveryItem(h, seen, open, a, b, i) ==
  IF i > Len(Elems(h[Addr(a)])) THEN "true"
  ELSE IF IsHole(Elems(h[Addr(a)])[i])
  THEN EveryItem(h, seen, open, a, b, i + 1)
  ELSE With(deepEqualOnStack(h, seen, open, Elems(h[Addr(a)])[i],
                             Elems(h[Addr(b)])[i]),
            LAMBDA r : IF r = "true"
                       THEN EveryItem(h, seen, open, a, b, i + 1)
                       ELSE r)

\* keysA.every(key => keysB.includes(key) && deepEqual(a[key], b[key], seen))
EveryKey(h, seen, open, a, b, keysA, i) ==
  IF i > Len(keysA) THEN "true"
  ELSE IF IndexOf(OwnKeys(h, b), keysA[i]) = 0 THEN "false"
  ELSE With(deepEqualOnStack(h, seen, open, GetProp(h, a, keysA[i]),
                             GetProp(h, b, keysA[i])),
            LAMBDA r : IF r = "true"
                       THEN EveryKey(h, seen, open, a, b, keysA, i + 1)
                       ELSE r)

\* obj1 = {a: 1}; obj1.self = obj1, and obj2 the same; arrays that hold
\* themselves; an object of another content; an object and an array that
\* hold each other, twice
EqHeap ==
  << ObjCell(<<K("a"), K("s")>>, <<Num(1), Ref(1)>>),
     ObjCell(<<K("a"), K("s")>>, <<Num(1), Ref(2)>>),
     ArrCell(<<Ref(3)>>),
     ArrCell(<<Ref(4)>>),
     ObjCell(<<K("a"), K("s")>>, <<Num(2), Ref(5)>>),
     ObjCell(<<K("k")>>, <<Ref(7)>>),
     ArrCell(<<Ref(6)>>),
     ObjCell(<<K("k")>>, <<Ref(9)>>),
     ArrCell(<<Ref(8)>>) >>

EqValues == {Num(1)} \cup {Ref(i) : i \in 1..Len(EqHeap)}

InitEq ==
  /\ doc = TNum(0)
  /\ heap = EqHeap
  /\ target = Undefined
  /\ ExecIdle
  /\ LcsLoaded
  /\ ArrUnused
  /\ DiffUnused
  /\ batched = <<>>
  /\ PtrUnused
  /\ eqA \in EqValues
  /\ eqB \in EqValues
  /\ eqOut = NoOutcome

\* deepEqual(a, b) of validate.ts
CallValidateDeepEqual ==
  /\ eqOut = NoOutcome
  /\ eqOut' = [fn |-> "validate",
               val |-> deepEqualOnStack(heap, {}, {}, eqA, eqB)]
  /\ UNCHANGED <<execVars, lcsVars, arrVars, diffVars, batched, eqA, eqB,
                 ptrVars>>

\* deepEqual(a, b) of utils.ts
CallUtilsDeepEqual ==
  /\ eqOut = NoOutcome
  /\ eqOut' = [fn |-> "utils",
               val |-> IF ElemEqual(heap, eqA, eqB) THEN "true" ELSE "false"]
  /\ UNCHANGED <<execVars, lcsVars, arrVars, diffVars, batched, eqA, eqB,
                 ptrVars>>

NextEq ==
  \/ CallValidateDeepEqual
  \/ CallUtilsDeepEqual

SpecEq == InitEq /\ [][NextEq]_vars

\* the addresses a value reaches
EqReach(h, v) == ReachFrom(h, v, Len(h))

\* v contains itself
SelfReferential(h, v) ==
  /\ IsRef(v)
  /\ \E i \in 1..Len(Entries(h, v)) :
       Addr(v) \in EqReach(h, Entries(h, v)[i][2])

\* x under the renaming f of addresses
Renamed(f, x) == IF IsRef(x) THEN Ref(f[Addr(x)]) ELSE x

\* a and b have the same shape: a one-to-one renaming of the nodes of a onto
\* the nodes of b takes a to b and every node to a node of the same kind with
\* the same keys and the renamed members
SameShape(h, a, b) ==
  IF ~IsRef(a) \/ ~IsRef(b) THEN a = b
  ELSE \E f \in [EqReach(h, a) -> EqReach(h, b)] :
         /\ f[Addr(a)] = Addr(b)
         /\ \A x, y \in EqReach(h, a) : f[x] = f[y] => x = y
         /\ \A x \in EqReach(h, a) :
              /\ CellIsArr(h[x]) = CellIsArr(h[f[x]])
              /\ Len(Entries(h, Ref(x))) = Len(Entries(h, Ref(f[x])))
              /\ \A i \in 1..Len(Entries(h, Ref(x))) :
                   /\ Entries(h, Ref(f[x]))[i][1] = Entries(h, Ref(x))[i][1]
                   /\ Entries(h, Ref(f[x]))[i][2]
                        = Renamed(f, Entries(h, Ref(x))[i][2])

\* C20: deepEqual(a, b) returns a boolean for all inputs, self-referential
\* ones included, and two self-referential values of the same shape compare
\* equal
C20_DeepEqualTerminates ==
  eqOut # NoOutcome =>
    /\ eqOut.val \in {"true", "false"}
    /\ (SelfReferential(heap, eqA) /\ SelfReferential(heap, eqB)
          /\ SameShape(heap, eqA, eqB))
         => eqOut.val = "true"

(***************************************************************************)
(* createPatch on a new value that contains a cycle: one call of           *)
(* createPatch(old, new, '', options)                                      *)
(***************************************************************************)
\* circular = {a: 1}; circular.self = circular; an array that holds itself;
\* two objects that hold each other; an object that holds circular; and the
\* values without a cycle: {}, [] and {a: 1}
CycHeap ==
  << ObjCell(<<K("a"), K("s")>>, <<Num(1), Ref(1)>>),
     ArrCell(<<Ref(2)>>),
     ObjCell(<<K("k")>>, <<Ref(4)>>),
     ObjCell(<<K("k")>>, <<Ref(3)>>),
     ObjCell(<<K("c")>>, <<Ref(1)>>),
     ObjCell(<<>>, <<>>),
     ArrCell(<<>>),
     ObjCell(<<K("a")>>, <<Num(1)>>) >>

CycOlds == {Undefined, Null, Num(1), Ref(1), Ref(6), Ref(7), Ref(8)}
CycNews == {Ref(1), Ref(2), Ref(3), Ref(5), Ref(8)}

\* the maxDepth a call gives: none (-1) or 2
CycMaxDepths == {-1, 2}

InitCyc ==
  /\ doc = TNum(0)
  /\ heap = CycHeap
  /\ target \in CycOlds
  /\ targetB \in CycNews
  /\ docB = TNum(0)
  /\ diffOpts = <<>>
  /\ ExecIdle
  /\ LcsLoaded
  /\ ArrUnused
  /\ MoreUnused

\* createPatch(old, new, '', options), checkCircular left at its default
CallCreatePatch ==
  /\ pc = "idle"
  /\ \E detectMove \in BOOLEAN, batchArrayOps \in BOOLEAN,
        maxDepth \in CycMaxDepths :
       \E options \in {[DiffOptions(detectMove, batchArrayOps)
                          EXCEPT !.maxDepth = maxDepth]} :
         \E created \in {createPatch(heap, target, targetB, <<>>, options,
                                     0)} :
           /\ diffOpts' = options
           /\ heap' = created.h
           /\ patch' = IF Failed(created) THEN <<>> ELSE created.val
           /\ err' = created.err
  /\ api' = "createPatch"
  /\ pc' = "returned"
  /\ UNCHANGED <<doc, target, work, backup, opts, idx, inverse, phase, heap0,
                 pre, attempted, docB, targetB, lcsVars, arrVars, moreVars>>

NextCyc == CallCreatePatch

SpecCyc == InitCyc /\ [][NextCyc]_vars

\* v holds a node that contains itself
ContainsCycle(h, v) == \E x \in EqReach(h, v) : SelfReferential(h, Ref(x))

\* C21: with cycle checking enabled, createPatch(old, new) raises
\* CircularReference whenever new contains a cycle, for every old
C21_CycleInNewRaises ==
  (api = "createPatch" /\ diffOpts.checkCircular
     /\ ContainsCycle(CycHeap, targetB))
    => err = "CIRCULAR_REFERENCE"

(***************************************************************************)
(* setValueByPointer as a state machine: one call of                       *)
(* setValueByPointer(doc, ptr, 9) on a document that lacks the containers  *)
(* on the way                                                              *)
(***************************************************************************)
\* the tokens the pointers are made of
SetTokens == {K("a"), K("b"), K("0"), K("-"), <<"-", "1">>}

\* the longest pointer, in tokens
MaxTokens == 3

RECURSIVE PointerOf(_)
\* '/' + tokens.join('/')
PointerOf(tokens) ==
  IF tokens = <<>> THEN <<>>
  ELSE <<"/">> \o Head(tokens) \o PointerOf(Tail(tokens))

SetPointers == {PointerOf(t) : t \in SeqsUpTo(SetTokens, MaxTokens) \ {<<>>}}

\* {} and {a: []}
SetDocs == {TObj(<<>>, <<>>), TObj(<<K("a")>>, <<TArr(<<>>)>>)}

InitSet ==
  /\ doc \in SetDocs
  /\ heap = Load(<<>>, doc).h
  /\ target = Load(<<>>, doc).val
  /\ ExecIdle
  /\ LcsLoaded
  /\ ArrUnused
  /\ DiffUnused
  /\ batched = <<>>
  /\ eqA = Undefined
  /\ eqB = Undefined
  /\ eqOut = NoOutcome
  /\ ptr \in SetPointers
  /\ ptrOut = NoOutcome
  /\ pointerParseCache = {}
  /\ ptrCalls = 0

\* setValueByPointer(doc, ptr, 9), the first call after the module was loaded
CallSetValueByPointer ==
  /\ ptrCalls = 0
  /\ \E r \in {setValueByPointer(heap, target, ptr, Num(9))} :
       /\ heap' = r.h
       /\ ptrOut' = [fn |-> "setValueByPointer", val |-> r.err]
  /\ heap0' = heap
  /\ ptrCalls' = 1
  /\ UNCHANGED <<doc, target, work, backup, patch, opts, api, pc, idx, err,
                 inverse, phase, pre, attempted, lcsVars, arrVars, diffVars,
                 batched, eqA, eqB, eqOut, ptr, pointerParseCache>>

NextSet == CallSetValueByPointer

SpecSet == InitSet /\ [][NextSet]_vars

\* the tokens of a pointer made by PointerOf
TokensOf(pointer) == Tail(Split(pointer))

\* the token is all digits or "-"
IsArrayToken(token) == AllDigits(token) \/ token = <<"-">>

\* the first position of the pointer whose container the document h lacks
FirstMissing(h, w, tokens) ==
  IF \E i \in 1..Len(tokens) : GetWalk(h, w, SubSeq(tokens, 1, i), 1) = Undefined
  THEN CHOOSE i \in 1..Len(tokens) :
         /\ GetWalk(h, w, SubSeq(tokens, 1, i), 1) = Undefined
         /\ \A j \in 1..(i - 1) :
              GetWalk(h, w, SubSeq(tokens, 1, j), 1) # Undefined
  ELSE Len(tokens) + 1

\* the j-th container the call created stands at position
\* FirstMissing + j - 1 of the pointer
CreatedAt(j) == FirstMissing(heap0, target, TokensOf(ptr)) + j - 1

\* C23: a container that set(doc, ptr, value) creates at a position of ptr is
\* an array if the token at the next position is all digits or "-", and an
\* object otherwise, at every position
C23_CreatedContainerKind ==
  ptrOut.fn = "setValueByPointer" =>
    \A j \in 1..(Len(heap) - Len(heap0)) :
      CellIsArr(heap[Len(heap0) + j])
        <=> IsArrayToken(TokensOf(ptr)[CreatedAt(j) + 1])

\* the same, for the pointers whose tokens are all different and not
\* negative numbers
C23_DistinctTokens ==
  (/\ ptrOut.fn = "setValueByPointer"
   /\ \A i, j \in 1..Len(TokensOf(ptr)) :
        /\ TokensOf(ptr)[i] # <<"-", "1">>
        /\ TokensOf(ptr)[i] = TokensOf(ptr)[j] => i = j)
  => \A j \in 1..(Len(heap) - Len(heap0)) :
       CellIsArr(heap[Len(heap0) + j])
         <=> IsArrayToken(TokensOf(ptr)[CreatedAt(j) + 1])

(***************************************************************************)
(* batchArrayOperations as a state machine: one call of either version of  *)
(* batchArrayOperations(operations, maxBatchSize) on a list of adds and    *)
(* removes                                                                 *)
(***************************************************************************)
\* the longest operation list
MaxOps == 3

\* the largest maxBatchSize
MaxBatch == 3

BatchOps ==
  {ArrayOperation("add", i, v, Undefined) :
     i \in 0..(MaxOps - 1), v \in {Num(1), Ref(1)}}
    \cup {ArrayOperation("remove", i, Num(1), Undefined) : i \in 0..1}

InitBatch ==
  /\ ExecUnused
  /\ LcsLoaded
  /\ docB = TNum(0)
  /\ targetB = Undefined
  /\ \E n \in 1..MaxBatch :
       diffOpts = [DiffOptions(TRUE, TRUE) EXCEPT !.maxBatchSize = n]
  /\ MoreUnused
  /\ arrHeap = LcsHeap
  /\ arrOld = <<>>
  /\ arrNew = <<>>
  /\ arrOps \in SeqsUpTo(BatchOps, MaxOps)
  /\ arrPatch = <<>>
  /\ arrOut = <<>>
  /\ arrIdx = 0
  /\ arrPc = "start"

\* batchArrayOperations(operations, maxBatchSize), first half of the file
CallBatchWithMax ==
  /\ arrPc = "start"
  /\ \E r \in {batchArrayOperations(arrHeap, arrOps, diffOpts.maxBatchSize)} :
       /\ arrHeap' = r.h
       /\ arrPatch' = r.patch
  /\ arrPc' = "batched"
  /\ UNCHANGED <<execVars, lcsVars, diffVars, moreVars, arrOld, arrNew, arrOps,
                 arrOut, arrIdx>>

\* batchArrayOperations(operations, maxBatchSize), second half of the file
CallBatchWithMaxV2 ==
  /\ arrPc = "start"
  /\ \E r \in {batchArrayOperationsV2(arrHeap, arrOps,
                                      diffOpts.maxBatchSize)} :
       /\ arrHeap' = r.h
       /\ arrPatch' = r.patch
  /\ arrPc' = "batchedV2"
  /\ UNCHANGED <<execVars, lcsVars, diffVars, moreVars, arrOld, arrNew, arrOps,
                 arrOut, arrIdx>>

NextBatch ==
  \/ CallBatchWithMax
  \/ CallBatchWithMaxV2

SpecBatch == InitBatch /\ [][NextBatch]_vars

\* the values an emitted operation carries: the elements of the array the
\* batching pass made, one value otherwise, none when it is not an add
CarriedValues(h, op) ==
  IF op.op # "add" THEN <<>>
  ELSE IF IsRef(op.value) /\ Addr(op.value) > Len(LcsHeap)
  THEN Elems(h[Addr(op.value)])
  ELSE <<op.value>>

RECURSIVE AllCarried(_, _, _)
\* the values of the adds of a patch from operation i on, in their order
AllCarried(h, p, i) ==
  IF i > Len(p) THEN <<>>
  ELSE CarriedValues(h, p[i]) \o AllCarried(h, p, i + 1)

\* the values of the add operations of a list, in their order
AddedValues(operations) ==
  LET adds == SelectSeq(operations, LAMBDA o : o.type = "add")
  IN [i \in 1..Len(adds) |-> adds[i].value]

\* C24: no add emitted by the batching pass carries more than maxBatchSize
\* values, and the adds emitted carry the values of all the add operations,
\* so that a run longer than maxBatchSize is split into several adds
C24_BatchWithinMax ==
  arrPc \in {"batched", "batchedV2"} =>
    /\ \A i \in 1..Len(arrPatch) :
         Len(CarriedValues(arrHeap, arrPatch[i])) <= diffOpts.maxBatchSize
    /\ AllCarried(arrHeap, arrPatch, 1) = AddedValues(arrOps)

\* three adds at 0, 1, 2 under maxBatchSize 2 came out as two adds
C24_Witness ==
  /\ arrPc = "batched"
  /\ diffOpts.maxBatchSize = 2
  /\ Len(arrOps) = 3
  /\ \A i \in 1..3 : arrOps[i].type = "add" /\ arrOps[i].index = i - 1
  /\ Len(arrPatch) = 2
  /\ Len(CarriedValues(arrHeap, arrPatch[1])) = 2

(***************************************************************************)
(* createPatch(A, A): one call of createPatch on a value and itself, or on *)
(* a value and a second copy of it, under every combination of options     *)
(***************************************************************************)
SameDocs ==
  { TNum(1),
    TObj(<<>>, <<>>),
    TObj(<<K("a")>>, <<TNum(1)>>),
    TArr(<<>>),
    TArr(<<TNum(1), TNum(2)>>),
    TArr(<<TObj(<<>>, <<>>)>>),
    TArr(<<TNum(1), TObj(<<>>, <<>>), TNum(2)>>),
    TObj(<<K("a")>>, <<TArr(<<TNum(1), TNum(2)>>)>>),
    TObj(<<K("a")>>, <<TArr(<<TObj(<<>>, <<>>)>>)>>),
    TObj(<<K("a")>>, <<TObj(<<K("b")>>, <<TNum(1)>>)>>),
    TArr(<<TArr(<<TNum(1)>>), TObj(<<K("b")>>, <<TNum(1)>>)>>) }

\* A is given twice as one value, or as two values built from one literal
InitSame ==
  /\ doc \in SameDocs
  /\ docB = doc
  /\ \E second \in BOOLEAN :
       /\ heap = IF second THEN Load(Load(<<>>, doc).h, doc).h
                 ELSE Load(<<>>, doc).h
       /\ targetB = IF second THEN Load(Load(<<>>, doc).h, doc).val
                    ELSE Load(<<>>, doc).val
  /\ target = Load(<<>>, doc).val
  /\ diffOpts = <<>>
  /\ ExecIdle
  /\ LcsLoaded
  /\ ArrUnused
  /\ MoreUnused

\* createPatch(old, new, '', options) under any options
CallCreatePatchWithOptions ==
  /\ pc = "idle"
  /\ \E detectMove \in BOOLEAN, batchArrayOps \in BOOLEAN,
        checkCircular \in BOOLEAN, maxDepth \in CycMaxDepths :
       \E options \in {[DiffOptions(detectMove, batchArrayOps)
                          EXCEPT !.checkCircular = checkCircular,
                                 !.maxDepth = maxDepth]} :
         \E created \in {createPatch(heap, target, targetB, <<>>, options,
                                     0)} :
           /\ diffOpts' = options
           /\ heap' = created.h
           /\ patch' = IF Failed(created) THEN <<>> ELSE created.val
           /\ err' = created.err
  /\ api' = "createPatch"
  /\ pc' = "returned"
  /\ UNCHANGED <<doc, target, work, backup, opts, idx, inverse, phase, heap0,
                 pre, attempted, docB, targetB, lcsVars, arrVars, moreVars>>

NextSame == CallCreatePatchWithOptions

SpecSame == InitSame /\ [][NextSame]_vars

RECURSIVE TreeDepth(_)
\* the containers one inside the other on the longest way down a literal
TreeDepth(t) ==
  IF t[1] = "n" THEN 0
  ELSE With(IF t[1] = "A" THEN t[2] ELSE t[3], LAMBDA items :
         IF items = <<>> THEN 0
         ELSE 1 + Max(0, CHOOSE d \in {TreeDepth(items[i]) : i \in 1..Len(items)} :
                           \A i \in 1..Len(items) : TreeDepth(items[i]) <= d))

\* A is within the maxDepth of the options
WithinMaxDepth == diffOpts.maxDepth = -1 \/ TreeDepth(doc) <= diffOpts.maxDepth

\* C25: for every acyclic A within maxDepth and every option combination,
\* createPatch(A, A) returns the empty patch
C25_SameValueEmptyPatch ==
  (api = "createPatch" /\ WithinMaxDepth) => (err = NoErr /\ patch = <<>>)

\* the same, when both arguments are one and the same value
C25_SameReferenceEmptyPatch ==
  (api = "createPatch" /\ WithinMaxDepth /\ targetB = target)
    => (err = NoErr /\ patch = <<>>)

\* the same, without detectMove
C25_WithoutDetectMove ==
  (api = "createPatch" /\ WithinMaxDepth /\ ~diffOpts.detectMove)
    => (err = NoErr /\ patch = <<>>)

(***************************************************************************)
(* Pointer texts: validateJsonPointer of validate.ts and of utils.ts, and  *)
(* escapePointerSegment / unescapePointerSegment, on every short string    *)
(***************************************************************************)
StrChars == {"/", "~", "0", "1", "2", "a"}
MaxStrLen == 4

InitStr ==
  /\ ptr \in SeqsUpTo(StrChars, MaxStrLen)
  /\ ptrOut = NoOutcome
  /\ pointerParseCache = {}
  /\ ptrCalls = 0
  /\ batched = <<>>
  /\ eqA = Undefined
  /\ eqB = Undefined
  /\ eqOut = NoOutcome
  /\ ExecIdle
  /\ heap = <<>>
  /\ doc = TNum(0)
  /\ target = Undefined
  /\ DiffUnused
  /\ LcsLoaded
  /\ ArrUnused

\* validateJsonPointer(ptr) of validate.ts
CallValidateJsonPointer ==
  /\ ptrCalls = 0
  /\ ptrOut' = [fn |-> "validateJsonPointer", val |-> validateJsonPointer(ptr)]
  /\ ptrCalls' = 1
  /\ UNCHANGED <<execVars, lcsVars, arrVars, diffVars, batched, eqA, eqB,
                 eqOut, ptr, pointerParseCache>>

\* validateJsonPointer(ptr) of utils.ts
CallUtilsValidateJsonPointer ==
  /\ ptrCalls = 0
  /\ ptrOut' = [fn |-> "utilsValidateJsonPointer",
                val |-> utilsValidateJsonPointer(ptr)]
  /\ ptrCalls' = 1
  /\ UNCHANGED <<execVars, lcsVars, arrVars, diffVars, batched, eqA, eqB,
                 eqOut, ptr, pointerParseCache>>

\* unescapePointerSegment(escapePointerSegment(ptr))
CallEscapeThenUnescape ==
  /\ ptrCalls = 0
  /\ ptrOut' = [fn |-> "unescapePointerSegment",
                val |-> unescapePointerSegment(escapePointerSegment(ptr))]
  /\ ptrCalls' = 1
  /\ UNCHANGED <<execVars, lcsVars, arrVars, diffVars, batched, eqA, eqB,
                 eqOut, ptr, pointerParseCache>>

NextStr ==
  \/ CallValidateJsonPointer
  \/ CallUtilsValidateJsonPointer
  \/ CallEscapeThenUnescape

SpecStr == InitStr /\ [][NextStr]_vars

\* s holds a "~" that is not immediately followed by "0" or "1"
HasBadTilde(s) ==
  \E i \in 1..Len(s) : s[i] = "~" /\ (i = Len(s) \/ s[i + 1] \notin {"0", "1"})

\* C26: validateJsonPointer fails with INVALID_POINTER for every pointer that
\* contains a "~" not immediately followed by "0" or "1", a "~" at the end of
\* a token included
C26_BadTildeRejected ==
  (ptrOut.fn \in {"validateJsonPointer", "utilsValidateJsonPointer"}
   /\ HasBadTilde(ptr))
    => ptrOut.val = "INVALID_POINTER"

\* "/a/~" and "/a/~2" were validated by either function
C26_Witness ==
  /\ ptrOut.fn \in {"validateJsonPointer", "utilsValidateJsonPointer"}
  /\ ptr \in {<<"/", "a", "/", "~">>, <<"/", "~", "0", "~">>,
              <<"/", "~", "/", "a">>}
  /\ ptrOut.val = "INVALID_POINTER"

\* C27: unescapePointerSegment(escapePointerSegment(s)) = s for every string
\* s, strings that contain "~", "/", "~0" or "~1" included
C27_EscapeRoundTrip ==
  ptrOut.fn = "unescapePointerSegment" => ptrOut.val = ptr

\* the round trip was taken on a string that holds "~1" and on one with "/"
C27_Witness ==
  /\ ptrOut.fn = "unescapePointerSegment"
  /\ ptr \in {<<"~", "1", "/", "~">>, <<"~", "0", "1">>}
  /\ escapePointerSegment(ptr) # ptr
  /\ ptrOut.val = ptr

(***************************************************************************)
(* generateArrayOperations that plans removes and moves before it emits    *)
(* them (src/unnamed/part_001), and the order of the moves either          *)
(* generateArrayOperations emits                                           *)
(***************************************************************************)
\* an ArrayOperation of this version: the source index is called from
PlannedOperation(t, i, v, f, c) ==
  [type |-> t, index |-> i, value |-> v, from |-> f, count |-> c]

\* valueToNewIndex.get(value): forEach sets every index, the last one stays
LastIndexOf(q, x) ==
  CHOOSE i \in 1..Len(q) : q[i] = x /\ \A j \in (i + 1)..Len(q) : q[j] # x

RECURSIVE PlanFrom(_, _, _, _)
\* for (let i = 0; i < result.length; i++): removes and moves as planned
PlanFrom(result, newArr, i, plan) ==
  IF i >= Len(result) THEN plan
  ELSE IF IndexOf(newArr, result[i + 1]) = 0
  THEN PlanFrom(result, newArr, i + 1,
                [plan EXCEPT !.removes = Append(@, i)])
  ELSE IF i # LastIndexOf(newArr, result[i + 1]) - 1
  THEN PlanFrom(result, newArr, i + 1,
                [plan EXCEPT !.moves =
                   Append(@, [value |-> result[i + 1], from |-> i,
                              to |-> LastIndexOf(newArr, result[i + 1]) - 1])])
  ELSE PlanFrom(result, newArr, i + 1, plan)

RECURSIVE RunRemoves(_, _)
\* removes.reverse().forEach(index => ...)
RunRemoves(st, removes) ==
  IF removes = <<>> THEN st
  ELSE With(removes[Len(removes)], LAMBDA index :
    RunRemoves([operations |->
                  Append(st.operations,
                         PlannedOperation("remove", index, Undefined,
                                          Undefined, 1)),
                result |-> SpliceOut(st.result, index, 1)],
               SubSeq(removes, 1, Len(removes) - 1)))

\* the comparator of moves.sort is negative
SortsBefore(m1, m2) ==
  IF m1.to # m2.to THEN m1.to < m2.to ELSE m1.from > m2.from

RECURSIVE SortMoves(_)
\* moves.sort(...): no two planned moves compare as equal
SortMoves(moves) ==
  IF moves = <<>> THEN <<>>
  ELSE With(CHOOSE k \in 1..Len(moves) :
              \A j \in 1..Len(moves) : j = k \/ SortsBefore(moves[k], moves[j]),
            LAMBDA k : <<moves[k]>> \o SortMoves(SpliceOut(moves, k - 1, 1)))

RECURSIVE RunMoves(_, _)
\* for (const move of moves)
RunMoves(st, moves) ==
  IF moves = <<>> THEN st
  ELSE With(IndexOf(st.result, moves[1].value) - 1, LAMBDA currentIndex :
    IF currentIndex # -1 /\ currentIndex # moves[1].to
    THEN RunMoves([operations |->
                     Append(st.operations,
                            PlannedOperation("move", moves[1].to, Undefined,
                                             currentIndex, Undefined)),
                   result |-> SpliceIn(SpliceOut(st.result, currentIndex, 1),
                                       moves[1].to, moves[1].value)],
                  Tail(moves))
    ELSE RunMoves(st, Tail(moves)))

RECURSIVE RunAdds(_, _, _)
\* toAdd.forEach(value => ...)
RunAdds(st, newArr, toAdd) ==
  IF toAdd = <<>> THEN st
  ELSE With(IndexOf(newArr, toAdd[1]) - 1, LAMBDA targetIndex :
    RunAdds([operations |->
               Append(st.operations,
                      PlannedOperation("add", targetIndex, toAdd[1],
                                       Undefined, Undefined)),
             result |-> SpliceIn(st.result, targetIndex, toAdd[1])],
            newArr, Tail(toAdd)))

\* the operations when the planned ones do not give newArr
RemoveAllAddAll(oldArr, newArr) ==
  (IF Len(oldArr) > 0
   THEN <<PlannedOperation("remove", 0, Undefined, Undefined, Len(oldArr))>>
   ELSE <<>>)
  \o (IF Len(newArr) > 0
      THEN <<PlannedOperation("add", 0, <<"list", newArr>>, Undefined,
                              Undefined)>>
      ELSE <<>>)

\* generateArrayOperations(oldArr, newArr) on arrays of numbers
generateArrayOperationsPlanned(oldArr, newArr) ==
  With(PlanFrom(oldArr, newArr, 0, [moves |-> <<>>, removes |-> <<>>]),
       LAMBDA plan :
    With(RunAdds(RunMoves(RunRemoves([operations |-> <<>>, result |-> oldArr],
                                     plan.removes),
                          SortMoves(plan.moves)),
                 newArr,
                 SelectSeq(newArr, LAMBDA value : IndexOf(oldArr, value) = 0)),
         LAMBDA st :
      IF st.result # newArr THEN RemoveAllAddAll(oldArr, newArr)
      ELSE st.operations))

MoveElems == {Num(1), Num(2), Num(3)}

InitMove ==
  /\ ExecUnused
  /\ LcsLoaded
  /\ DiffUnused
  /\ MoreUnused
  /\ arrHeap = LcsHeap
  /\ arrOld \in SeqsUpTo(MoveElems, MaxArrLen)
  /\ arrNew \in SeqsUpTo(MoveElems, MaxArrLen + 1)
  /\ arrOps = <<>>
  /\ arrPatch = <<>>
  /\ arrOut = <<>>
  /\ arrIdx = 0
  /\ arrPc = "start"

\* generateArrayOperations(oldArr, newArr) of src/unnamed/part_001
CallGenerateArrayOperationsPlanned ==
  /\ arrPc = "start"
  /\ arrOps' = generateArrayOperationsPlanned(arrOld, arrNew)
  /\ arrPc' = "generatedPlanned"
  /\ UNCHANGED <<execVars, lcsVars, diffVars, moreVars, arrHeap, arrOld,
                 arrNew, arrPatch, arrOut, arrIdx>>

NextMove ==
  \/ CallGenerateArrayOperations
  \/ CallGenerateArrayOperationsPlanned

SpecMove == InitMove /\ [][NextMove]_vars

\* the index a move takes its element from
MoveSource(op) == IF "from" \in DOMAIN op THEN op.from ELSE op.fromIndex

\* the moves of the list are in ascending order of destination, and those of
\* one destination in descending order of source
MovesOrdered(operations) ==
  \A i, j \in 1..Len(operations) :
    (i < j /\ operations[i].type = "move" /\ operations[j].type = "move")
      => \/ operations[i].index < operations[j].index
         \/ /\ operations[i].index = operations[j].index
            /\ MoveSource(operations[i]) >= MoveSource(operations[j])

\* C28: in the list generateArrayOperations emits, the moves appear in
\* ascending order of destination index, and moves with the same destination
\* index in descending order of source index
C28_MovesOrdered ==
  arrPc \in {"generated", "generatedPlanned"} => MovesOrdered(arrOps)

\* the same of generateArrayOperations of array-utils.ts alone
C28_MovesOrderedByLCS ==
  arrPc = "generated" => MovesOrdered(arrOps)

\* the same of the planning version when oldArr holds no value twice
C28_MovesOrderedWithoutRepeats ==
  (arrPc = "generatedPlanned"
   /\ \A i, j \in 1..Len(arrOld) : arrOld[i] = arrOld[j] => i = j)
    => MovesOrdered(arrOps)

(***************************************************************************)
(* optimizeArrayOperations: the post-pass of array-utils.ts and the one of *)
(* src/unnamed/part_001, on every short list of operations                 *)
(***************************************************************************)
RECURSIVE optimizeArrayOperationsPart001(_, _)
\* optimizeArrayOperations(operations) of src/unnamed/part_001, from
\* position i (1-based); maxBatchSize is not read
optimizeArrayOperationsPart001(operations, i) ==
  IF i > Len(operations) THEN <<>>
  ELSE IF /\ operations[i].type = "remove"
          /\ i + 1 <= Len(operations)
          /\ operations[i + 1].type = "add"
  THEN <<PlannedOperation("move", operations[i + 1].index,
                          operations[i + 1].value, operations[i].index,
                          Undefined)>>
         \o optimizeArrayOperationsPart001(operations, i + 2)
  ELSE <<operations[i]>> \o optimizeArrayOperationsPart001(operations, i + 1)

OptOps ==
  {ArrayOperation("remove", i, v, Undefined) :
     i \in {0, 1}, v \in {Num(1), Num(2), Undefined}}
  \cup {ArrayOperation("add", i, v, Undefined) :
          i \in {0, 1}, v \in {Num(1), Num(2)}}
  \cup {ArrayOperation("move", 1, Undefined, 0)}

InitOpt ==
  /\ ExecUnused
  /\ LcsLoaded
  /\ DiffUnused
  /\ MoreUnused
  /\ arrHeap = LcsHeap
  /\ arrOld = <<>>
  /\ arrNew = <<>>
  /\ arrOps \in SeqsUpTo(OptOps, MaxOps)
  /\ arrPatch = <<>>
  /\ arrOut = <<>>
  /\ arrIdx = 0
  /\ arrPc = "start"

\* optimizeArrayOperations(operations) of array-utils.ts
CallOptimizeArrayOperations ==
  /\ arrPc = "start"
  /\ arrOut' = optimizeArrayOperationsV2(arrOps, 1)
  /\ arrPc' = "optimized"
  /\ UNCHANGED <<execVars, lcsVars, diffVars, moreVars, arrHeap, arrOld,
                 arrNew, arrOps, arrPatch, arrIdx>>

\* optimizeArrayOperations(operations) of src/unnamed/part_001
CallOptimizeArrayOperationsPart001 ==
  /\ arrPc = "start"
  /\ arrOut' = optimizeArrayOperationsPart001(arrOps, 1)
  /\ arrPc' = "optimizedPart001"
  /\ UNCHANGED <<execVars, lcsVars, diffVars, moreVars, arrHeap, arrOld,
                 arrNew, arrOps, arrPatch, arrIdx>>

NextOpt ==
  \/ CallOptimizeArrayOperations
  \/ CallOptimizeArrayOperationsPart001

SpecOpt == InitOpt /\ [][NextOpt]_vars

\* position i holds a remove and position i + 1 an add
RemoveThenAdd(operations, i) ==
  /\ i + 1 <= Len(operations)
  /\ operations[i].type = "remove"
  /\ operations[i + 1].type = "add"

\* no remove of the list is followed at once by an add of the value removed
NoPairOfEqualValues(operations) ==
  \A i \in 1..Len(operations) :
    RemoveThenAdd(operations, i)
      => operations[i].value # operations[i + 1].value

\* C29: the post-pass rewrites an immediately adjacent remove+add pair into a
\* move only when the removed and the added value are equal; a pair with
\* different values is left as a remove followed by an add
C29_OnlyEqualPairsRewritten ==
  (arrPc \in {"optimized", "optimizedPart001"} /\ NoPairOfEqualValues(arrOps))
    => arrOut = arrOps

\* the same of optimizeArrayOperations of array-utils.ts alone
C29_OnlyEqualPairsRewrittenByValue ==
  (arrPc = "optimized" /\ NoPairOfEqualValues(arrOps)) => arrOut = arrOps

\* array-utils.ts rewrites a pair of equal values into one move
C29_EqualPairRewritten ==
  (arrPc = "optimized" /\ Len(arrOps) = 2 /\ RemoveThenAdd(arrOps, 1)
   /\ arrOps[1].value = arrOps[2].value)
    => arrOut = <<ArrayOperation("move", arrOps[2].index, arrOps[1].value,
                                 arrOps[1].index)>>

(***************************************************************************)
(* parsePointer with its cache: calls of parsePointer, isArrayPath and     *)
(* getValueByPointer of utils.ts, one after the other, on one cache        *)
(***************************************************************************)
maxCacheSize == 1000

\* pointerParseCache.set(pointer, result) for a Map kept as a set of pairs
CacheSet(cache, pointer, result) ==
  {e \in cache : e[1] # pointer} \cup {<<pointer, result>>}

\* parsePointer(pointer) on the cache: [err, segs, cache, cached], cached
\* telling that the array returned is the one the cache holds
parsePointerCached(cache, pointer) ==
  IF SeenHas(cache, pointer)
  THEN [err |-> NoErr, segs |-> SeenGet(cache, pointer), cache |-> cache,
        cached |-> TRUE]
  ELSE IF pointer = <<>>
  THEN [err |-> NoErr, segs |-> <<>>, cache |-> CacheSet(cache, pointer, <<>>),
        cached |-> TRUE]
  ELSE IF ~StartsWith(pointer, <<"/">>)
  THEN [err |-> "INVALID_POINTER", segs |-> <<>>, cache |-> cache,
        cached |-> FALSE]
  ELSE With(parsePointer(pointer).segs, LAMBDA result :
    IF Cardinality(cache) < maxCacheSize
    THEN [err |-> NoErr, segs |-> result,
          cache |-> CacheSet(cache, pointer, result), cached |-> TRUE]
    ELSE [err |-> NoErr, segs |-> result, cache |-> cache, cached |-> FALSE])

\* isArrayPath(path): [err, out, cache]; pop() takes the last segment off the
\* array parsePointer returned
isArrayPathCached(cache, path) ==
  With(parsePointerCached(cache, path), LAMBDA p :
    IF p.err # NoErr THEN [err |-> p.err, out |-> FALSE, cache |-> p.cache]
    ELSE IF p.segs = <<>> THEN [err |-> NoErr, out |-> FALSE, cache |-> p.cache]
    ELSE [err |-> NoErr,
          out |-> (p.segs[Len(p.segs)] = <<"-">>
                   \/ AllDigits(p.segs[Len(p.segs)])),
          cache |-> IF p.cached
                    THEN CacheSet(p.cache, path,
                                  SubSeq(p.segs, 1, Len(p.segs) - 1))
                    ELSE p.cache])

\* getValueByPointer(obj, pointer) on the cache: [err, out, cache]
getValueByPointerCached(h, cache, obj, pointer) ==
  IF pointer = <<>> THEN [err |-> NoErr, out |-> obj, cache |-> cache]
  ELSE With(parsePointerCached(cache, pointer), LAMBDA p :
    IF p.err # NoErr THEN [err |-> p.err, out |-> Undefined, cache |-> p.cache]
    ELSE [err |-> NoErr, out |-> GetWalk(h, obj, p.segs, 1),
          cache |-> p.cache])

CachePointers ==
  {<<>>, <<"/", "a">>, <<"/", "a", "/", "0">>, <<"/", "~", "1">>, <<"a">>}

CacheDoc == TObj(<<K("a")>>, <<TArr(<<TNum(1)>>)>>)

MaxPtrCalls == 3

InitCache ==
  /\ ExecIdle
  /\ doc = CacheDoc
  /\ heap = Load(<<>>, CacheDoc).h
  /\ target = Load(<<>>, CacheDoc).val
  /\ DiffUnused
  /\ LcsLoaded
  /\ ArrUnused
  /\ MoreUnused

\* parsePointer(p)
CallParsePointer ==
  /\ ptrCalls < MaxPtrCalls
  /\ \E p \in CachePointers :
       \E r \in {parsePointerCached(pointerParseCache, p)} :
         /\ ptr' = p
         /\ ptrOut' = [fn |-> "parsePointer",
                       val |-> [err |-> r.err, out |-> r.segs]]
         /\ pointerParseCache' = r.cache
  /\ ptrCalls' = ptrCalls + 1
  /\ UNCHANGED <<execVars, lcsVars, arrVars, diffVars, batched, eqA, eqB,
                 eqOut>>

\* isArrayPath(p)
CallIsArrayPath ==
  /\ ptrCalls < MaxPtrCalls
  /\ \E p \in CachePointers :
       \E r \in {isArrayPathCached(pointerParseCache, p)} :
         /\ ptr' = p
         /\ ptrOut' = [fn |-> "isArrayPath",
                       val |-> [err |-> r.err, out |-> r.out]]
         /\ pointerParseCache' = r.cache
  /\ ptrCalls' = ptrCalls + 1
  /\ UNCHANGED <<execVars, lcsVars, arrVars, diffVars, batched, eqA, eqB,
                 eqOut>>

\* getValueByPointer(doc, p)
CallGetValueByPointer ==
  /\ ptrCalls < MaxPtrCalls
  /\ \E p \in CachePointers :
       \E r \in {getValueByPointerCached(heap, pointerParseCache, target, p)} :
         /\ ptr' = p
         /\ ptrOut' = [fn |-> "getValueByPointer",
                       val |-> [err |-> r.err, out |-> r.out]]
         /\ pointerParseCache' = r.cache
  /\ ptrCalls' = ptrCalls + 1
  /\ UNCHANGED <<execVars, lcsVars, arrVars, diffVars, batched, eqA, eqB,
                 eqOut>>

NextCache ==
  \/ CallParsePointer
  \/ CallIsArrayPath
  \/ CallGetValueByPointer

SpecCache == InitCache /\ [][NextCache]_vars

\* C30: parsePointer(p) returns the same token sequence for p on every call,
\* whatever calls of parsePointer, isArrayPath or getValueByPointer happened
\* before it: the tokens are those a call with an empty cache gives
C30_ParseResultStable ==
  ptrOut.fn = "parsePointer"
    => (ptrOut.val.err = parsePointer(ptr).err
        /\ ptrOut.val.out = parsePointer(ptr).segs)

\* every entry of the cache holds what parsing its pointer gives
CacheHoldsParses ==
  \A e \in pointerParseCache : e[2] = parsePointer(e[1]).segs

\* the same of a call that finds every entry of the cache as parsed
C30_StableWhileCacheIntact ==
  [][(CacheHoldsParses /\ ptrOut'.fn = "parsePointer")
       => (ptrOut'.val.err = parsePointer(ptr').err
           /\ ptrOut'.val.out = parsePointer(ptr').segs)]_vars

====
